---- MODULE Spec2Model ----
(***************************************************************************)
(* A model of see-spot's dataset resolution and merge-caching pipeline:    *)
(*   see_spot/s3_utils.py  merge_spots_tables, load_and_merge_spots_from_s3 *)
(*   see_spot/app.py       get_real_spots_data, set_active_dataset, ...     *)
(*                                                                         *)
(*   see_spot/session_manager.py  SessionManager                           *)
(*                                                                         *)
(* Ten specifications share the variables:                                 *)
(*   SpecMerge  the pure join merge_spots_tables over bounded input tables *)
(*   SpecLoad   load_and_merge_spots_from_s3 called directly, against a    *)
(*              remote store and the durable parquet cache                 *)
(*   Spec       the application: its request handlers and df_cache         *)
(*   SpecConcurrent  several callers inside load_and_merge_spots_from_s3  *)
(*              at once, one statement of the function per step            *)
(*   SpecDtypes    optimize_dtypes over bounded tables                     *)
(*   SpecManifest  find_processing_manifest over the candidate objects     *)
(*   SpecSankey    calculate_sankey_data_from_polars over bounded tables   *)
(*   SpecLocate    find_unmixed_spots_file, get_base_pattern_from_unmixed  *)
(*              and find_mixed_spots_file over the keys under a prefix     *)
(*   SpecSession   the SessionManager called by two threads, its sessions  *)
(*              table and its in-memory map, with restarts                 *)
(*   SpecSessionCore  the same with create_session, get_session and        *)
(*              update_session_data_prefix only                            *)
(*                                                                         *)
(* A table is a record [cols, rows]: cols the set of column names, rows a  *)
(* sequence of functions from cols to cells.  Every polars column is       *)
(* nullable, so a cell is <<>> (null) or <<v>> (the value v).              *)
(***************************************************************************)
EXTENDS Integers, Sequences, FiniteSets, TLC

VARIABLES
    spots_mixed,    \* SpecMerge: the mixed table handed to merge_spots_tables
    spots_unmixed,  \* SpecMerge: the unmixed table handed to it
    merged,         \* SpecMerge: None before the call, then the returned table
    remote,         \* per dataset, the content of its two remote pickle files
    parquet,        \* per dataset, the file at /s3-cache/<bucket>/<ds>/<ds>.parquet
    cache_dir,      \* per dataset, whether /s3-cache/<bucket>/<ds> exists
    call,           \* the last call of load_and_merge_spots_from_s3, or NoCall
    DATA_PREFIX,    \* app.py: the active dataset
    df_cache,       \* app.py: the in-memory cache entry
    response,       \* the response to the last request, or NoResponse if
                    \* none was made since the remote files last changed
    callers,        \* SpecConcurrent: per concurrent caller of
                    \* load_and_merge_spots_from_s3, where it is and what it holds
    dtypes_df,      \* SpecDtypes: the table handed to optimize_dtypes
    dtypes_out,     \* SpecDtypes: None before the call, then what it gave
    s3_objects,     \* SpecManifest: per candidate key, the object in the bucket
    manifest_search, \* SpecManifest: the last call of find_processing_manifest
    flow_df,        \* SpecSankey: the table handed to
                    \* calculate_sankey_data_from_polars
    flow_summary,   \* SpecSankey: None before the call, then what it returned
    bucket_keys,    \* SpecLocate: the keys stored under the spots prefix
    key_search,     \* SpecLocate: the last call of find_unmixed_spots_file or
                    \* find_mixed_spots_file
    base_pattern,   \* SpecLocate: the last call of get_base_pattern_from_unmixed
    sessions,       \* SpecSession: the rows of the sessions table of the
                    \* database, by session_id
    session_data,   \* SpecSession: SessionManager.session_data, the
                    \* in-memory map
    lock,           \* SpecSession: the thread that holds SessionManager._lock
    threads,        \* SpecSession: per thread, the call it is in
    returned,       \* SpecSession: the last call that returned, and what
    now,            \* SpecSession: the clock, in hours
    uuids           \* SpecSession: how many session ids uuid4 has given

mergeVars == <<spots_mixed, spots_unmixed, merged>>

loadVars == <<remote, parquet, cache_dir, call>>

appVars == <<DATA_PREFIX, df_cache, response>>

concVars == <<callers>>

pureVars ==
    <<dtypes_df, dtypes_out, s3_objects, manifest_search, flow_df, flow_summary>>

locateVars == <<bucket_keys, key_search, base_pattern>>

sessionVars == <<sessions, session_data, lock, threads, returned, now, uuids>>

vars ==
    <<mergeVars, loadVars, appVars, concVars, pureVars, locateVars, sessionVars>>

----------------------------------------------------------------------------
(* Cells, rows, tables *)

Null == <<>>

Range(seq) == {seq[i] : i \in 1..Len(seq)}

V(x) == <<x>>

None == [none |-> TRUE]

is_null(row, col) == row[col] = Null

Table(cols, rows) == [cols |-> cols, rows |-> rows]

Height(df) == Len(df.rows)

\* df.drop(col, strict=False): the column is removed when present.
drop(df, col) ==
    Table(df.cols \ {col},
          [i \in 1..Height(df) |-> [c \in df.cols \ {col} |-> df.rows[i][c]]])

\* df.select(cols): only those columns, in the same row order.
select(df, cols) ==
    Table(cols, [i \in 1..Height(df) |-> [c \in cols |-> df.rows[i][c]]])

\* df.filter(pl.col(col)): the rows whose cell is true; a null cell is dropped.
filter(df, col) ==
    Table(df.cols, SelectSeq(df.rows, LAMBDA r : r[col] = V(TRUE)))

\* An inner join: a left row without a match is dropped.
join_inner(left, right, keys) ==
    LET cols == left.cols \cup right.cols
        combine(l, r) == [c \in cols |-> IF c \in left.cols THEN l[c] ELSE r[c]]
        matches(l) ==
            SelectSeq(right.rows,
                      LAMBDA r : \A k \in keys : l[k] # Null /\ r[k] = l[k])
        joined(l) == [j \in 1..Len(matches(l)) |-> combine(l, matches(l)[j])]
        out[i \in 0..Height(left)] ==
            IF i = 0 THEN <<>> ELSE out[i - 1] \o joined(left.rows[i])
    IN  Table(cols, out[Height(left)])

\* A full join: the rows of the left join, and after them every right row no
\* left row matched, with null left columns.
join_full(left, right, keys) ==
    LET cols == left.cols \cup right.cols
        combine(l, r) == [c \in cols |-> IF c \in left.cols THEN l[c] ELSE r[c]]
        unmatched(l) == [c \in cols |-> IF c \in left.cols THEN l[c] ELSE Null]
        from_right(r) == [c \in cols |-> IF c \in right.cols THEN r[c] ELSE Null]
        matches(l) ==
            SelectSeq(right.rows,
                      LAMBDA r : \A k \in keys : l[k] # Null /\ r[k] = l[k])
        joined(l) ==
            IF matches(l) = <<>> THEN <<unmatched(l)>>
            ELSE [j \in 1..Len(matches(l)) |-> combine(l, matches(l)[j])]
        out[i \in 0..Height(left)] ==
            IF i = 0 THEN <<>> ELSE out[i - 1] \o joined(left.rows[i])
        orphans ==
            SelectSeq(right.rows,
                      LAMBDA r : \A i \in 1..Height(left) :
                                    \E k \in keys : left.rows[i][k] # r[k])
    IN  Table(cols, out[Height(left)]
                    \o [j \in 1..Len(orphans) |-> from_right(orphans[j])])

\* left.join(right, on=keys, how="left"): every left row, in the left order,
\* once per right row with the same non-null key cells (in the right order), or
\* once with null right columns when no right row matches.  The right table's
\* non-key columns are disjoint from the left's here, so none is renamed.
join_left(left, right, keys) ==
    LET cols == left.cols \cup right.cols
        combine(l, r) == [c \in cols |-> IF c \in left.cols THEN l[c] ELSE r[c]]
        unmatched(l) == [c \in cols |-> IF c \in left.cols THEN l[c] ELSE Null]
        matches(l) ==
            SelectSeq(right.rows,
                      LAMBDA r : \A k \in keys : l[k] # Null /\ r[k] = l[k])
        joined(l) ==
            IF matches(l) = <<>> THEN <<unmatched(l)>>
            ELSE [j \in 1..Len(matches(l)) |-> combine(l, matches(l)[j])]
        out[i \in 0..Height(left)] ==
            IF i = 0 THEN <<>> ELSE out[i - 1] \o joined(left.rows[i])
    IN  Table(cols, out[Height(left)])

\* df.with_columns(name=values): the column, given as one cell per row, is
\* added, or replaces the column of that name.
with_columns(df, name, values) ==
    Table(df.cols \cup {name},
          [i \in 1..Height(df) |->
              [c \in df.cols \cup {name} |->
                  IF c = name THEN values[i] ELSE df.rows[i][c]]])

\* A row index that ignores the offset and counts from 0.
with_row_index_from_zero(df, name, offset) ==
    Table(df.cols \cup {name},
          [i \in 1..Height(df) |->
              [c \in df.cols \cup {name} |->
                  IF c = name THEN V(i - 1) ELSE df.rows[i][c]]])

\* df.with_row_index(name, offset): row i (from 1) gets offset + i - 1.
with_row_index(df, name, offset) ==
    Table(df.cols \cup {name},
          [i \in 1..Height(df) |->
              [c \in df.cols \cup {name} |->
                  IF c = name THEN V(offset + i - 1) ELSE df.rows[i][c]]])

----------------------------------------------------------------------------
(* optimize_dtypes *)

string_cols == {"chan", "unmixed_chan", "cell_id"}

int_cols == {"spot_id", "chan_spot_id", "round"}

bool_cols == {"valid_spot", "reassigned", "unmixed_removed"}

Int8Max == 127

Int32Max == 2147483647

\* The largest value of the integer type optimize_dtypes casts the column to.
int_max(col) == IF col = "round" THEN Int8Max ELSE Int32Max

\* df.cast is strict: a value outside the target type's range raises.
cast_raises(df) ==
    \E i \in 1..Height(df), c \in df.cols \cap int_cols :
        /\ df.rows[i][c] # Null
        /\ \/ df.rows[i][c][1] > int_max(c)
           \/ df.rows[i][c][1] < -int_max(c) - 1

\* A Float64 value: the 24 leading bits of its significand (hi), which a
\* Float32 keeps, the 29 bits after them (lo), which it does not, and whether
\* its magnitude reaches 3.4e38.
Float64(hi, lo, huge) == [hi |-> hi, lo |-> lo, huge |-> huge]

\* Half a unit in the last place of a Float32, in units of the last place of
\* a Float64: 2^28.
Float32Half == 268435456

\* The columns the pickles hold as Float64 (df[col].dtype, line 99).
Float64Cols == {"x"}

\* Lines 102-107: max and min exist and both are below 3.4e38 in magnitude.
fits_float32(df, col) ==
    /\ \E i \in 1..Height(df) : df.rows[i][col] # Null
    /\ \A i \in 1..Height(df) :
          df.rows[i][col] # Null => ~df.rows[i][col][1].huge

\* A variant of the cast to Float32 that keeps every bit.
to_float32_exact(x) == x

\* The cast of a Float64 value to Float32: rounded to the nearest value with
\* 24 bits, a tie to the even one.
to_float32(x) ==
    Float64(x.hi + (IF \/ x.lo > Float32Half
                       \/ (x.lo = Float32Half /\ x.hi % 2 = 1)
                    THEN 1 ELSE 0),
            0, FALSE)

\* A cast that does not raise keeps every integer value (only its width
\* changes) and rounds the values of a Float64 column that fits Float32; the
\* callers of optimize_dtypes below use its result only when cast_raises is
\* false.
optimize_dtypes(df) ==
    Table(df.cols,
          [i \in 1..Height(df) |->
              [c \in df.cols |->
                  IF c \in int_cols /\ df.rows[i][c] # Null
                  THEN IF /\ df.rows[i][c][1] <= int_max(c)
                          /\ df.rows[i][c][1] >= -int_max(c) - 1
                       THEN df.rows[i][c]
                       ELSE Null
                  ELSE IF /\ c \in Float64Cols
                          /\ df.rows[i][c] # Null
                          /\ fits_float32(df, c)
                       THEN V(to_float32(df.rows[i][c][1]))
                  ELSE df.rows[i][c]]])

----------------------------------------------------------------------------
(* merge_spots_tables *)

merge_keys == {"chan", "chan_spot_id"}

SpotIdOffset == 1

mixed_clean(spots_mixed_) == drop(spots_mixed_, "spot_id")

unmixed_clean(spots_unmixed_) == drop(spots_unmixed_, "spot_id")

unique_unmixed_cols(spots_mixed_, spots_unmixed_) ==
    unmixed_clean(spots_unmixed_).cols \ mixed_clean(spots_mixed_).cols

\* What the comment in the source describes ("True where any unique unmixed
\* column is null"); the fold below computes "all".
any_null(row, cols) == \E c \in cols : is_null(row, c)

\* fold(True, acc & x, [col.is_null() for col in unique_unmixed_cols])
all_null(row, cols) == \A c \in cols : is_null(row, c)

\* A variant of the flag without the case of no unique column.
unmixed_removed_flag_vacuous(row, unique) == V(all_null(row, unique))

\* The flag of one joined row.
unmixed_removed_flag(row, unique) ==
    IF unique # {} THEN V(all_null(row, unique)) ELSE V(FALSE)

\* The join of merge_spots_tables, before the derived columns.
merge_join(spots_mixed_, spots_unmixed_) ==
    join_left(mixed_clean(spots_mixed_),
              select(unmixed_clean(spots_unmixed_),
                     merge_keys \cup unique_unmixed_cols(spots_mixed_, spots_unmixed_)),
              merge_keys)

\* select and join raise when a key column is missing; the cast may raise.
merge_raises(spots_mixed_, spots_unmixed_) ==
    \/ ~(merge_keys \subseteq spots_mixed_.cols)
    \/ ~(merge_keys \subseteq spots_unmixed_.cols)
    \/ cast_raises(merge_join(spots_mixed_, spots_unmixed_))

merge_spots_tables(spots_mixed_, spots_unmixed_) ==
    LET unique == unique_unmixed_cols(spots_mixed_, spots_unmixed_)
        joined == merge_join(spots_mixed_, spots_unmixed_)
        flagged == with_columns(joined, "unmixed_removed",
                                [i \in 1..Height(joined) |->
                                    unmixed_removed_flag(joined.rows[i], unique)])
        merged_with_id == with_row_index(flagged, "spot_id", SpotIdOffset)
    IN  optimize_dtypes(merged_with_id)

----------------------------------------------------------------------------
(* The remote store and the durable cache *)

Datasets == {"dsA", "dsB"}

\* What the two pickle files under <dataset>/image_spot_spectral_unmixing/
\* hold.  "v1" is a mixed table of three spots and an unmixed table of two,
\* "v2" a later upload of other tables whose first spot is not valid,
\* "novalid" a mixed table without the valid_spot column, "nokeys" an unmixed
\* table without chan_spot_id.
\* dsA is a dataset whose files are well formed, dsB one whose files are not.
ContentsOf(d) == IF d = "dsA" THEN {"v1", "v2"} ELSE {"novalid", "nokeys"}

\* The columns of a well-formed mixed table: the key, valid_spot, and the
\* measurements the data request serves.
MixedCols ==
    {"chan", "chan_spot_id", "valid_spot", "r", "dist", "x",
     "chan_488_intensity", "chan_561_intensity"}

\* The x of a row has bits beyond the 24 a Float32 keeps: just above a
\* Float32 value for the first spot of a channel, nearer to the next one for
\* the others.
MixedRow(chan, id, valid) ==
    [chan |-> V(chan), chan_spot_id |-> V(id), valid_spot |-> V(valid),
     r |-> V(1), dist |-> V(0),
     x |-> V(Float64(id, IF id = 1 THEN 1 ELSE Float32Half + 1, FALSE)),
     chan_488_intensity |-> V(10), chan_561_intensity |-> V(20)]

UnmixedRow(chan, id, unmixed_chan) ==
    [chan |-> V(chan), chan_spot_id |-> V(id), unmixed_chan |-> unmixed_chan]

\* pl.from_pandas(pd.read_pickle(mixed_local))
RemoteMixed(content) ==
    CASE content = "v2" ->
            Table(MixedCols,
                  <<MixedRow("488", 1, FALSE),
                    [MixedRow("561", 1, TRUE) EXCEPT
                        !["x"] = V(Float64(1, 1, TRUE))]>>)
      [] content = "novalid" ->
            Table({"chan", "chan_spot_id"},
                  <<[chan |-> V("488"), chan_spot_id |-> V(1)],
                    [chan |-> V("561"), chan_spot_id |-> V(1)]>>)
      [] OTHER ->
            Table(MixedCols,
                  <<MixedRow("488", 1, TRUE), MixedRow("488", 2, TRUE),
                    MixedRow("561", 1, FALSE)>>)

\* pl.from_pandas(pd.read_pickle(unmixed_local))
RemoteUnmixed(content) ==
    CASE content = "v2" ->
            Table({"chan", "chan_spot_id", "unmixed_chan"},
                  <<UnmixedRow("561", 1, V("488"))>>)
      [] content = "nokeys" ->
            Table({"chan", "unmixed_chan"},
                  <<[chan |-> V("488"), unmixed_chan |-> V("488")]>>)
      [] OTHER ->
            Table({"chan", "chan_spot_id", "unmixed_chan"},
                  <<UnmixedRow("488", 1, V("488")), UnmixedRow("488", 2, Null)>>)

AllContents == UNION {ContentsOf(d) : d \in Datasets}

\* Lines 337-344: merge_spots_tables on the two unpickled tables of a content,
\* or None where it raises.
MergedOf ==
    [content \in AllContents |->
        IF merge_raises(RemoteMixed(content), RemoteUnmixed(content)) THEN None
        ELSE merge_spots_tables(RemoteMixed(content), RemoteUnmixed(content))]

\* The file at the canonical cache path: none, one that read_parquet cannot
\* read (a partial or damaged file), or a parquet file holding a table.
Absent == [kind |-> "absent"]

Corrupt == [kind |-> "corrupt"]

Stored(df) == [kind |-> "parquet", table |-> df]

Raised == [raised |-> TRUE]

NoCall == [dataset_name |-> "none"]

----------------------------------------------------------------------------
(* load_and_merge_spots_from_s3 *)

\* What the environment decides during one call: whether each listing finds
\* its file, whether each download and the unpickling succeed, and how the
\* write of the parquet file ends:
\*   "ok"           the file is written
\*   "mkdir_error"  cache_dir.mkdir raises: nothing is created
\*   "open_error"   write_parquet raises before it touches the file
\*   "write_error"  write_parquet raises part-way: a partial file is left
PersistOutcomes == {"ok", "mkdir_error", "open_error", "write_error"}

\* A call stops at its first failure, so what the environment would have
\* decided after it is left at "success": at most one step fails per call.
Envs ==
    { e \in [unmixed_found : BOOLEAN, mixed_found : BOOLEAN,
             unmixed_downloaded : BOOLEAN, mixed_downloaded : BOOLEAN,
             unpickled : BOOLEAN, persist : PersistOutcomes] :
        Cardinality({ f \in {"unmixed_found", "mixed_found", "unmixed_downloaded",
                             "mixed_downloaded", "unpickled"} : ~e[f] })
            + (IF e.persist = "ok" THEN 0 ELSE 1) <= 1 }

\* The environment in which every step succeeds.
AllOk ==
    [unmixed_found |-> TRUE, mixed_found |-> TRUE, unmixed_downloaded |-> TRUE,
     mixed_downloaded |-> TRUE, unpickled |-> TRUE, persist |-> "ok"]

\* The outcome of a call: the value returned (a table, None, or Raised when an
\* exception leaves the function), the file and directory it leaves, and the
\* operations it performed, in order.
Outcome(ret, file, dir, ops) ==
    [ret |-> ret, parquet |-> file, cache_dir |-> dir, ops |-> ops,
     error |-> ""]

\* Lines 247-257 and 359-369: the caller's view of the full table.
filter_raises(df, valid_spots_only) ==
    valid_spots_only /\ "valid_spot" \notin df.cols

\* A variant that numbers the rows again after filtering.
filtered_renumbered(df, valid_spots_only) ==
    IF valid_spots_only
    THEN with_row_index(drop(filter(df, "valid_spot"), "spot_id"), "spot_id", 1)
    ELSE df

\* A variant that hands back the full table whatever the flag.
filtered_never(df, valid_spots_only) == df

filtered(df, valid_spots_only) ==
    IF valid_spots_only THEN filter(df, "valid_spot") ELSE df

\* A variant of the persist step that writes nothing.
persisted_never(df_merged, file, env) == file

\* Lines 346-356: the file and the directory after the persist step.
persisted(df_merged, file, env) ==
    CASE env.persist = "ok" -> Stored(df_merged)
      [] env.persist = "write_error" -> Corrupt
      [] OTHER -> file

\* A variant of a failed call that leaves a partial file behind.
failed_leaving_partial(file, dir, ops, error) ==
    [Outcome(None, Corrupt, TRUE, ops) EXCEPT !.error = error]

\* A variant of a failed call whose log record does not say what failed.
failed_unnamed(file, dir, ops, error) ==
    [Outcome(None, file, dir, ops) EXCEPT !.error = "Failed to load spots data"]

\* Lines 272-275, 284-287, 306-307, 319-320, 334-335, 343-344: the error is
\* logged and None is returned; the file and the directory are as the call
\* found them.
failed(file, dir, ops, error) ==
    [Outcome(None, file, dir, ops) EXCEPT !.error = error]

\* Lines 322-369: unpickle, merge, persist, filter.
merge_and_persist(file, dir, content, valid_spots_only, env, ops) ==
    LET df_merged == MergedOf[content]
    IN  IF ~env.unpickled THEN
            failed(file, dir, ops \o <<"read_pickle">>,
                   "Error loading pickle files")
        ELSE IF df_merged = None THEN
            failed(file, dir, ops \o <<"read_pickle", "merge">>,
                   "Error merging DataFrames")
        ELSE
            Outcome(IF filter_raises(df_merged, valid_spots_only) THEN Raised
                    ELSE filtered(df_merged, valid_spots_only),
                    persisted(df_merged, file, env),
                    dir \/ env.persist # "mkdir_error",
                    ops \o <<"read_pickle", "merge">>
                        \o (IF env.persist = "mkdir_error" THEN <<"mkdir">>
                            ELSE <<"mkdir", "write_parquet">>))

\* A variant that goes on to the merge whether or not the downloads succeeded.
download_unchecked(file, dir, content, valid_spots_only, env, ops) ==
    IF ~env.unmixed_found THEN
        failed(file, dir, ops \o <<"list_unmixed">>,
               "Could not find unmixed spots file")
    ELSE IF ~env.mixed_found THEN
        failed(file, dir, ops \o <<"list_unmixed", "list_mixed">>,
               "Could not find mixed spots file")
    ELSE
        merge_and_persist(file, dir, content, valid_spots_only, env,
                          ops \o <<"list_unmixed", "list_mixed",
                                   "download_unmixed", "download_mixed">>)

\* A variant that starts the merge once the unmixed file is there, without
\* the mixed download.
download_mixed_pending(file, dir, content, valid_spots_only, env, ops) ==
    IF ~env.unmixed_found THEN
        failed(file, dir, ops \o <<"list_unmixed">>,
               "Could not find unmixed spots file")
    ELSE IF ~env.mixed_found THEN
        failed(file, dir, ops \o <<"list_unmixed", "list_mixed">>,
               "Could not find mixed spots file")
    ELSE IF ~env.unmixed_downloaded THEN
        failed(file, dir,
               ops \o <<"list_unmixed", "list_mixed", "download_unmixed">>,
               "Failed to download unmixed spots file")
    ELSE
        merge_and_persist(file, dir, content, valid_spots_only, env,
                          ops \o <<"list_unmixed", "list_mixed",
                                   "download_unmixed">>)

\* A variant that attempts a failed download a second time before giving up.
download_retrying(file, dir, content, valid_spots_only, env, ops) ==
    IF ~env.unmixed_found THEN
        failed(file, dir, ops \o <<"list_unmixed">>,
               "Could not find unmixed spots file")
    ELSE IF ~env.mixed_found THEN
        failed(file, dir, ops \o <<"list_unmixed", "list_mixed">>,
               "Could not find mixed spots file")
    ELSE IF ~env.unmixed_downloaded THEN
        failed(file, dir,
               ops \o <<"list_unmixed", "list_mixed", "download_unmixed",
                        "download_unmixed">>,
               "Failed to download unmixed spots file")
    ELSE IF ~env.mixed_downloaded THEN
        failed(file, dir,
               ops \o <<"list_unmixed", "list_mixed", "download_unmixed",
                        "download_mixed", "download_mixed">>,
               "Failed to download mixed spots file")
    ELSE
        merge_and_persist(file, dir, content, valid_spots_only, env,
                          ops \o <<"list_unmixed", "list_mixed",
                                   "download_unmixed", "download_mixed">>)

\* Lines 262-369: the path taken when the cache is not served.
download_and_merge(file, dir, content, valid_spots_only, env, ops) ==
    IF ~env.unmixed_found THEN
        failed(file, dir, ops \o <<"list_unmixed">>,
               "Could not find unmixed spots file")
    ELSE IF ~env.mixed_found THEN
        failed(file, dir, ops \o <<"list_unmixed", "list_mixed">>,
               "Could not find mixed spots file")
    ELSE IF ~env.unmixed_downloaded THEN
        failed(file, dir,
               ops \o <<"list_unmixed", "list_mixed", "download_unmixed">>,
               "Failed to download unmixed spots file")
    ELSE IF ~env.mixed_downloaded THEN
        failed(file, dir,
               ops \o <<"list_unmixed", "list_mixed", "download_unmixed",
                        "download_mixed">>,
               "Failed to download mixed spots file")
    ELSE
        merge_and_persist(file, dir, content, valid_spots_only, env,
                          ops \o <<"list_unmixed", "list_mixed",
                                   "download_unmixed", "download_mixed">>)

\* A variant whose read of an existing file is not protected: a file that
\* cannot be read ends the call with the failure value.
load_without_fallthrough(file, dir, content, valid_spots_only, env) ==
    IF file = Absent THEN
        download_and_merge(file, dir, content, valid_spots_only, env, <<>>)
    ELSE IF file = Corrupt THEN
        Outcome(None, file, dir, <<"read_parquet">>)
    ELSE
        Outcome(filtered(optimize_dtypes(file.table), valid_spots_only),
                file, dir, <<"read_parquet">>)

\* Lines 237-260: an existing file is read, optimized and filtered inside one
\* try block; any exception there falls through to download_and_merge.
load_and_merge_spots_from_s3(file, dir, content, valid_spots_only, env) ==
    IF file = Absent THEN
        download_and_merge(file, dir, content, valid_spots_only, env, <<>>)
    ELSE IF \/ file = Corrupt
            \/ cast_raises(file.table)
            \/ filter_raises(optimize_dtypes(file.table), valid_spots_only)
    THEN
        download_and_merge(file, dir, content, valid_spots_only, env,
                           <<"read_parquet">>)
    ELSE
        Outcome(filtered(optimize_dtypes(file.table), valid_spots_only),
                file, dir, <<"read_parquet">>)

----------------------------------------------------------------------------
(* app.py: module state *)

\* Line 42: the dataset that is active when the app starts.
DefaultDataset == "dsA"

\* Lines 46-53: df_cache as the module is imported.
EmptyCache ==
    [data |-> None,
     last_loaded |-> Null,
     target_key |-> Null,
     processing_manifest |-> None,
     spot_channels_from_manifest |-> Null,
     sankey_data |-> None]

NoResponse == [endpoint |-> "none"]

\* The concurrent callers of SpecConcurrent.
Callers == {"c1", "c2"}

\* A caller that is not inside load_and_merge_spots_from_s3.
Idle ==
    [pc |-> "idle", dataset_name |-> "none", valid_spots_only |-> FALSE,
     df |-> None, ret |-> None, observed |-> "nothing"]

\* The arguments and results of the functions that have a specification of
\* their own, in a specification that does not use them.
InitIdleDtypes ==
    /\ dtypes_df = None
    /\ dtypes_out = None

InitIdleManifest ==
    /\ s3_objects = None
    /\ manifest_search = None

InitIdleSankey ==
    /\ flow_df = None
    /\ flow_summary = None

InitIdleLocate ==
    /\ bucket_keys = None
    /\ key_search = None
    /\ base_pattern = None

\* The session manager of a specification that does not use it.
InitIdleSession ==
    /\ sessions = <<>>
    /\ session_data = <<>>
    /\ lock = Null
    /\ threads = <<>>
    /\ returned = None
    /\ now = 0
    /\ uuids = 0

InitIdlePure ==
    /\ InitIdleDtypes
    /\ InitIdleManifest
    /\ InitIdleSankey
    /\ InitIdleLocate
    /\ InitIdleSession

\* The app part, and the callers, of a specification that does not use them.
InitIdleApp ==
    /\ DATA_PREFIX = DefaultDataset
    /\ df_cache = EmptyCache
    /\ response = NoResponse
    /\ callers = [c \in Callers |-> Idle]

----------------------------------------------------------------------------
(* SpecLoad: direct calls of load_and_merge_spots_from_s3, as the tests make *)

\* The state of the remote store and the cache before anything is cached.
InitStore ==
    /\ remote \in [Datasets -> AllContents]
    /\ \A d \in Datasets : remote[d] \in ContentsOf(d)
    /\ parquet \in [Datasets -> {Absent, Corrupt}]
    /\ cache_dir = [d \in Datasets |-> parquet[d] # Absent]
    /\ call = NoCall

\* The store part of a specification that does not use it.
InitIdleLoad ==
    /\ remote = [d \in Datasets |-> IF d = "dsA" THEN "v1" ELSE "novalid"]
    /\ parquet = [d \in Datasets |-> Absent]
    /\ cache_dir = [d \in Datasets |-> FALSE]
    /\ call = NoCall

InitLoad ==
    /\ InitStore
    /\ spots_mixed = Table({}, <<>>)
    /\ spots_unmixed = Table({}, <<>>)
    /\ merged = None
    /\ InitIdleApp
    /\ InitIdlePure

\* load_and_merge_spots_from_s3(bucket, dataset_name, prefix, valid_spots_only)
LoadAndMerge ==
    \E dataset_name \in Datasets, valid_spots_only \in BOOLEAN, env \in Envs :
        LET out == load_and_merge_spots_from_s3(
                       parquet[dataset_name], cache_dir[dataset_name],
                       remote[dataset_name], valid_spots_only, env)
        IN  /\ parquet' = [parquet EXCEPT ![dataset_name] = out.parquet]
            /\ cache_dir' = [cache_dir EXCEPT ![dataset_name] = out.cache_dir]
            /\ call' = [dataset_name |-> dataset_name,
                        valid_spots_only |-> valid_spots_only,
                        before |-> parquet[dataset_name],
                        \* the persist step was reached and did not succeed
                        persist_failed |-> /\ "mkdir" \in Range(out.ops)
                                           /\ env.persist # "ok",
                        \* the call before this one was for the same dataset
                        \* and nothing happened to the remote files since
                        repeated |-> call.dataset_name = dataset_name,
                        \* this call repeats a call that returned None
                        retry |-> /\ call.dataset_name = dataset_name
                                  /\ call.valid_spots_only = valid_spots_only
                                  /\ call.ret = None,
                        ops |-> out.ops,
                        ret |-> out.ret,
                        \* the error logged for a failure, and what the
                        \* environment decided if the remote files were used
                        error |-> out.error,
                        env |-> IF "list_unmixed" \in Range(out.ops)
                                THEN env ELSE AllOk]
            /\ UNCHANGED <<remote, mergeVars, pureVars, locateVars, sessionVars, concVars, appVars>>

\* Someone uploads other spot files for a dataset.
RemoteUpdate ==
    \E d \in Datasets :
      \E content \in ContentsOf(d) :
        /\ remote[d] # content
        /\ remote' = [remote EXCEPT ![d] = content]
        /\ call' = NoCall
        /\ UNCHANGED <<parquet, cache_dir, mergeVars, pureVars, locateVars, sessionVars, concVars, appVars>>

NextLoad == LoadAndMerge \/ RemoteUpdate

SpecLoad == InitLoad /\ [][NextLoad]_vars

----------------------------------------------------------------------------
(* SpecMerge: merge_spots_tables over every pair of bounded input tables *)

\* The most rows an input table of SpecMerge has.
MaxRows == 2

\* The (chan, chan_spot_id) keys of the input rows: chan_spot_id is unique only
\* within a channel.
Keys == {<<"488", 1>>, <<"488", 2>>, <<"561", 1>>}

\* The column layouts of the two inputs:
\*   plain      unmixed adds unmixed_chan; valid_spot varies in this layout
\*   stale_ids  both inputs carry a spot_id column of their own
\*   shared     mixed already has unmixed_chan: no column is unique to unmixed
\*   keys_only  unmixed has the key columns only: no column is unique to unmixed
\*   two_cols   unmixed adds unmixed_chan and dist
Schemas == {"plain", "stale_ids", "shared", "keys_only", "two_cols"}

MixedColsOf(s) ==
    {"chan", "chan_spot_id", "valid_spot"}
        \cup (IF s = "stale_ids" THEN {"spot_id"} ELSE {})
        \cup (IF s = "shared" THEN {"unmixed_chan"} ELSE {})

UnmixedColsOf(s) ==
    {"chan", "chan_spot_id"}
        \cup (IF s = "keys_only" THEN {} ELSE {"unmixed_chan"})
        \cup (IF s = "stale_ids" THEN {"spot_id"} ELSE {})
        \cup (IF s = "two_cols" THEN {"dist"} ELSE {})

MixedRowsOf(s) ==
    { [c \in MixedColsOf(s) |->
        CASE c = "chan" -> V(k[1])
          [] c = "chan_spot_id" -> V(k[2])
          [] c = "valid_spot" -> V(b)
          [] c = "spot_id" -> V(9)
          [] c = "unmixed_chan" -> V("561")] :
        k \in Keys, b \in (IF s = "plain" THEN BOOLEAN ELSE {TRUE}) }

UnmixedRowsOf(s) ==
    { [c \in UnmixedColsOf(s) |->
        CASE c = "chan" -> V(k[1])
          [] c = "chan_spot_id" -> V(k[2])
          [] c = "unmixed_chan" -> u
          [] c = "spot_id" -> V(7)
          [] c = "dist" -> d] :
        k \in Keys,
        u \in (IF s = "keys_only" THEN {Null} ELSE {Null, V("561")}),
        d \in (IF s = "two_cols" THEN {Null, V(1)} ELSE {Null}) }

SeqsUpTo(S, n) == UNION {[1..m -> S] : m \in 0..n}

InitMerge ==
    /\ \E s \in Schemas :
        /\ \E m \in SeqsUpTo(MixedRowsOf(s), MaxRows) :
              spots_mixed = Table(MixedColsOf(s), m)
        /\ \E u \in SeqsUpTo(UnmixedRowsOf(s), MaxRows) :
              spots_unmixed = Table(UnmixedColsOf(s), u)
    /\ merged = None
    /\ InitIdleLoad
    /\ InitIdleApp
    /\ InitIdlePure

\* merged = merge_spots_tables(spots_mixed, spots_unmixed)
MergeSpotsTables ==
    /\ merged = None
    /\ ~merge_raises(spots_mixed, spots_unmixed)
    /\ merged' = merge_spots_tables(spots_mixed, spots_unmixed)
    /\ UNCHANGED <<spots_mixed, spots_unmixed, loadVars, appVars, concVars, pureVars, locateVars, sessionVars>>

NextMerge == MergeSpotsTables

SpecMerge == InitMerge /\ [][NextMerge]_vars

----------------------------------------------------------------------------
(* Claims about merge_spots_tables, checked under SpecMerge *)

\* The (chan, chan_spot_id) cells of a row.
KeyOf(row) == <<row["chan"], row["chan_spot_id"]>>

\* No two rows of the table have the same (chan, chan_spot_id).
DistinctKeys(df) ==
    \A i, j \in 1..Height(df) :
        KeyOf(df.rows[i]) = KeyOf(df.rows[j]) => i = j

\* Row i of the output is row i of the mixed table on every mixed column
\* (spot_id apart), and the output has as many rows as the mixed table.
EachMixedRowOnce ==
    /\ Height(merged) = Height(spots_mixed)
    /\ \A i \in 1..Height(spots_mixed) :
          \A c \in spots_mixed.cols \ {"spot_id"} :
              merged.rows[i][c] = spots_mixed.rows[i][c]

\* C1, as stated: for a mixed table with pairwise-distinct keys and EVERY
\* unmixed table, the output has exactly the mixed table's rows, each once.
C1_Original ==
    (merged # None /\ DistinctKeys(spots_mixed)) => EachMixedRowOnce

\* C1, amended: when the keys of the mixed table are pairwise distinct and the
\* keys of the unmixed table are pairwise distinct too, the output has exactly
\* as many rows as the mixed table and row i is mixed row i: none dropped,
\* none duplicated.
C1_RowCount ==
    (merged # None /\ DistinctKeys(spots_mixed) /\ DistinctKeys(spots_unmixed))
        => EachMixedRowOnce

\* A merge of distinct-key tables in which one mixed row found a match and
\* another found none.
C1_Witness ==
    /\ merged # None
    /\ DistinctKeys(spots_mixed) /\ DistinctKeys(spots_unmixed)
    /\ Height(spots_mixed) = 2 /\ Height(spots_unmixed) = 2
    /\ "unmixed_chan" \in merged.cols \ spots_mixed.cols
    /\ \E i, j \in 1..Height(merged) :
          /\ \E k \in 1..Height(spots_unmixed) :
                KeyOf(spots_unmixed.rows[k]) = KeyOf(merged.rows[i])
          /\ \A k \in 1..Height(spots_unmixed) :
                KeyOf(spots_unmixed.rows[k]) # KeyOf(merged.rows[j])

\* The columns present in the unmixed input and absent from the mixed input.
UniqueToUnmixed ==
    (spots_unmixed.cols \ {"spot_id"}) \ (spots_mixed.cols \ {"spot_id"})

C3_SpotIdDense ==
    merged # None =>
        /\ \A i \in 1..Height(merged) : merged.rows[i]["spot_id"] = V(i)
        /\ merged = merge_spots_tables(drop(spots_mixed, "spot_id"),
                                       drop(spots_unmixed, "spot_id"))

\* A merge of inputs that both carry their own spot_id values, with a
\* duplicated mixed row so that the join order decides the ids.
C3_Witness ==
    /\ merged # None
    /\ "spot_id" \in spots_mixed.cols /\ "spot_id" \in spots_unmixed.cols
    /\ Height(spots_mixed) = 2
    /\ Height(merged) = 3

----------------------------------------------------------------------------
(* Claims about load_and_merge_spots_from_s3, checked under SpecLoad *)

RemoteOps ==
    {"list_unmixed", "list_mixed", "download_unmixed", "download_mixed"}

IsTable(ret) == ret # None /\ ret # Raised

CacheHit == call.ops = <<"read_parquet">>

\* The rows a caller asking with the given flag is meant to see.
ExpectedView(full, valid_spots_only) ==
    IF valid_spots_only
    THEN Table(full.cols, SelectSeq(full.rows, LAMBDA r : r["valid_spot"] = V(TRUE)))
    ELSE full

\* The full merged table behind the last call: the one read from the file on
\* the cache-hit path, the one merged from the remote files otherwise.
FullTable ==
    IF CacheHit THEN call.before.table ELSE MergedOf[remote[call.dataset_name]]

\* C4: a call that returns a table returns, with valid_spots_only=True, exactly
\* the rows of the full merged table whose valid_spot is true and, with
\* valid_spots_only=False, every row, on the cache-hit path and on the merge
\* path alike; the file a call writes always holds the unfiltered merged table.
C4_FilterPerFlag ==
    /\ (call # NoCall /\ IsTable(call.ret)) =>
            call.ret = ExpectedView(FullTable, call.valid_spots_only)
    /\ \A d \in Datasets :
            parquet[d].kind = "parquet" =>
                \E content \in ContentsOf(d) :
                    /\ MergedOf[content] # None
                    /\ parquet[d].table = MergedOf[content]

\* A cache hit with valid_spots_only=True on the three-row artifact of the
\* end-to-end example returns its two valid rows.
C4_Witness ==
    /\ call # NoCall
    /\ CacheHit
    /\ call.valid_spots_only
    /\ IsTable(call.ret)
    /\ Height(call.before.table) = 3
    /\ Height(call.ret) = 2

\* C7: when a readable merged artifact exists at the cache path, the call
\* returns the table loaded from it, performs no listing and no download, and
\* does not write to the cache path.
C7_CacheHitOnly ==
    (call # NoCall /\ call.before.kind = "parquet") =>
        /\ CacheHit
        /\ IsTable(call.ret)
        /\ parquet[call.dataset_name] = call.before

\* C8: of two consecutive calls for the same dataset with unchanged remote
\* files, the second leaves the artifact it found exactly as it was.
C8_SecondCallKeepsArtifact ==
    (call # NoCall /\ call.repeated /\ call.before.kind = "parquet") =>
        parquet[call.dataset_name] = call.before

\* C9: an existing file that cannot be loaded is a cache miss: the call goes on
\* to list the remote files, and it fails only where one of the later steps
\* (listing, download, unpickling, merge) fails; once the merge has succeeded
\* the call does not return the failure value.
C9_CorruptIsMiss ==
    (call # NoCall /\ call.before = Corrupt) =>
        /\ Len(call.ops) >= 2
        /\ call.ops[1] = "read_parquet"
        /\ call.ops[2] = "list_unmixed"
        /\ call.ret = None =>
                call.ops[Len(call.ops)] \in RemoteOps \cup {"read_pickle", "merge"}
        /\ "mkdir" \in Range(call.ops) => call.ret # None

\* A call that found an unreadable file returned the three merged rows and
\* replaced the file.
C9_Witness ==
    /\ call # NoCall
    /\ call.before = Corrupt
    /\ IsTable(call.ret)
    /\ Height(call.ret) = 3
    /\ parquet[call.dataset_name].kind = "parquet"

\* C10: when writing the merged artifact fails, the call still returns the
\* merged table, filtered per the caller's flag.
C10_PersistFailureNonFatal ==
    (call # NoCall /\ call.persist_failed) =>
        /\ IsTable(call.ret)
        /\ call.ret = ExpectedView(MergedOf[remote[call.dataset_name]],
                                   call.valid_spots_only)

----------------------------------------------------------------------------
(* app.py: the flow summary *)

\* Line 124: at least 5 spots, or 0.1% of the rows.
SankeyMinThreshold == 5

SankeyPerMille == 1000

\* The channel names of the model in the order sorted() and the polars sort
\* give them, the sentinel last (line 98).
ChannelOrder == <<"488", "561", "Removed">>

Max(a, b) == IF a >= b THEN a ELSE b

\* A variant of the final channel that keeps the string 'none'.
final_chan_none_kept(row) ==
    IF row["unmixed_chan"] \in {Null, V("")} THEN "Removed"
    ELSE row["unmixed_chan"][1]

\* Lines 75-83: the final channel of a row.
final_chan(row) ==
    IF row["unmixed_chan"] \in {Null, V("none"), V("")} THEN "Removed"
    ELSE row["unmixed_chan"][1]

\* The values of the chan column in the order the polars sort gives them:
\* null first.
OriginOrder ==
    <<Null>> \o [i \in 1..Len(ChannelOrder) |-> V(ChannelOrder[i])]

\* f"{chan}" of a chan value.
origin_name(chan) == IF chan = Null THEN "None" ELSE chan[1]

\* Lines 86-91: the (chan, final_chan) group keys in sorted order.
FlowPairs ==
    LET n == Len(ChannelOrder)
    IN  [k \in 1..(Len(OriginOrder) * n) |->
            <<OriginOrder[((k - 1) \div n) + 1], ChannelOrder[((k - 1) % n) + 1]>>]

\* A variant of the threshold that does not grow with the table.
min_threshold_fixed(total_spots) == SankeyMinThreshold

\* Line 124: max(5, int(total_spots * 0.001)).  The float product truncates
\* to total_spots // 1000 for every row count up to the millions.
min_threshold(total_spots) ==
    Max(SankeyMinThreshold, total_spots \div SankeyPerMille)

\* A variant of the grouping that leaves out the rows without a channel.
flow_counts_without_nulls(df_polars) ==
    [k \in 1..Len(FlowPairs) |->
        IF FlowPairs[k][1] = Null THEN 0
        ELSE Cardinality({ i \in 1..Height(df_polars) :
                            /\ df_polars.rows[i]["chan"] = FlowPairs[k][1]
                            /\ final_chan(df_polars.rows[i]) = FlowPairs[k][2] })]

\* Lines 86-91: group_by(['chan', 'final_chan']).agg(pl.len()); a null chan
\* is a group key like any other.  A count of 0 stands for "no such group".
flow_counts(df_polars) ==
    [k \in 1..Len(FlowPairs) |->
        Cardinality({ i \in 1..Height(df_polars) :
                        /\ df_polars.rows[i]["chan"] = FlowPairs[k][1]
                        /\ final_chan(df_polars.rows[i]) = FlowPairs[k][2] })]

\* Lines 62-152.  A link's percentage, a rounding of value / total_spots, is
\* not carried.
calculate_sankey_data_from_polars(df_polars) ==
    LET rows == df_polars.rows
        total_spots == Height(df_polars)
        threshold == min_threshold(total_spots)
        original_channels ==
            SelectSeq(OriginOrder,
                      LAMBDA c : \E i \in 1..total_spots : rows[i]["chan"] = c)
        final_channels ==
            SelectSeq(ChannelOrder,
                      LAMBDA c : \E i \in 1..total_spots : final_chan(rows[i]) = c)
        original_nodes ==
            [i \in 1..Len(original_channels) |->
                [channel |-> origin_name(original_channels[i]),
                 category |-> "original"]]
        final_nodes ==
            [i \in 1..Len(final_channels) |->
                [channel |-> final_channels[i], category |-> "final"]]
        link(k, count) ==
            [source |-> origin_name(FlowPairs[k][1]),
             target |-> FlowPairs[k][2],
             value |-> count,
             flow_type |->
                IF FlowPairs[k][1] = V(FlowPairs[k][2]) THEN "unchanged"
                ELSE IF FlowPairs[k][2] = "Removed" THEN "removed"
                ELSE "reassigned"]
        links(counts) ==
            LET significant ==
                    SelectSeq([k \in 1..Len(FlowPairs) |-> k],
                              LAMBDA k : counts[k] > 0 /\ counts[k] >= threshold)
            IN  [n \in 1..Len(significant) |->
                    link(significant[n], counts[significant[n]])]
    IN  [nodes |-> original_nodes \o final_nodes,
         links |-> links(flow_counts(df_polars)),
         total_spots |-> total_spots,
         threshold_used |-> threshold]

----------------------------------------------------------------------------
(* app.py: get_real_spots_data *)

\* The parsed processing_manifest.json of a dataset.  That of dsA lists its
\* spot channels (unsorted); that of dsB has no "spot_channels" key.
ManifestOf(d) ==
    [dataset |-> d,
     has_spot_channels |-> d = "dsA",
     spot_channels |-> IF d = "dsA" THEN <<"561", "488">> ELSE <<>>]

\* What the environment decides during one request: whether
\* find_processing_manifest finds the manifest, whether the manifest object
\* can be fetched and parsed, and the decisions of Envs; again at most one
\* step fails.
AppEnvs ==
    { e \in [manifest_found : BOOLEAN, manifest_loaded : BOOLEAN, load : Envs] :
        \/ e.manifest_found /\ e.manifest_loaded
        \/ e.load = AllOk /\ (e.manifest_found \/ e.manifest_loaded) }

\* sorted(channels)
sorted(channels) == SelectSeq(ChannelOrder, LAMBDA c : c \in Range(channels))

\* list(itertools.combinations(channels, 2))
combinations(channels) ==
    LET n == Len(channels)
        idx == [k \in 1..(n * n) |-> <<((k - 1) \div n) + 1, ((k - 1) % n) + 1>>]
        pairs == SelectSeq(idx, LAMBDA ij : ij[1] < ij[2])
    IN  IF n < 2 THEN <<>>
        ELSE [k \in 1..Len(pairs) |-> <<channels[pairs[k][1]], channels[pairs[k][2]]>>]

\* f'chan_{c}_intensity'
intensity_col(c) ==
    CASE c = "488" -> "chan_488_intensity"
      [] c = "561" -> "chan_561_intensity"
      [] OTHER -> "chan_Removed_intensity"

\* Lines 56-60: the channel pairs derived from the intensity columns.
get_channel_pairs(df) ==
    combinations(SelectSeq(ChannelOrder, LAMBDA c : intensity_col(c) \in df.cols))

\* Line 396
required_cols ==
    {"spot_id", "chan", "r", "dist", "unmixed_chan", "reassigned",
     "unmixed_removed"}

\* Line 262: the memoized table is used unless a refresh is forced.
use_cached_if_present(force_refresh, data) == data # None

use_cached(force_refresh, data) == ~force_refresh /\ data # None

\* What the first part of the handler (lines 262-336) hands to the rest: the
\* error of an early return ("" if none), the table df, the polars table
\* df_polars if this request loaded one, the channel list, the cache entry and
\* the parquet file and directory as they are left, and which of the manifest
\* resolver and the table merger were invoked.
Loaded(error, df, df_polars, spot_channels, cache, file, dir, resolver, merger) ==
    [error |-> error, df |-> df, df_polars |-> df_polars,
     spot_channels |-> spot_channels, cache |-> cache,
     parquet |-> file, cache_dir |-> dir,
     resolver_invoked |-> resolver, merger_invoked |-> merger]

\* Lines 263-284: the memoized table is used; the manifest is fetched again
\* if the cached manifest or channel list is missing or empty.
serve_cached(cache, dataset, file, dir, env) ==
    LET refetch == \/ cache.processing_manifest = None
                   \/ cache.spot_channels_from_manifest \in {Null, V(<<>>)}
        processing_manifest ==
            IF ~refetch \/ ~env.manifest_found THEN cache.processing_manifest
            ELSE IF env.manifest_loaded THEN ManifestOf(dataset)
            ELSE None
        has_channels == /\ processing_manifest # None
                        /\ processing_manifest.has_spot_channels
    IN  IF ~refetch THEN
            Loaded("", cache.data, None, cache.spot_channels_from_manifest[1],
                   cache, file, dir, FALSE, FALSE)
        ELSE IF has_channels THEN
            Loaded("", cache.data, None, processing_manifest.spot_channels,
                   [cache EXCEPT
                       !.processing_manifest = processing_manifest,
                       !.spot_channels_from_manifest =
                           V(processing_manifest.spot_channels)],
                   file, dir, TRUE, FALSE)
        ELSE
            Loaded("", cache.data, None, <<>>, cache, file, dir, TRUE, FALSE)

\* A variant of the reload that empties the cache entry when the merger
\* fails.
reload_clearing(cache, dataset, file, dir, content, valid_spots_only, env) ==
    LET out == load_and_merge_spots_from_s3(file, dir, content,
                                            valid_spots_only, env.load)
        processing_manifest == ManifestOf(dataset)
    IN  IF ~env.manifest_found THEN
            Loaded("Failed to find processing manifest", None, None, <<>>,
                   cache, file, dir, TRUE, FALSE)
        ELSE IF ~env.manifest_loaded THEN
            Loaded("Failed to load processing manifest", None, None, <<>>,
                   cache, file, dir, TRUE, FALSE)
        ELSE IF out.ret = None THEN
            Loaded("Failed to load spots data", None, None, <<>>,
                   EmptyCache, out.parquet, out.cache_dir, TRUE, TRUE)
        ELSE IF out.ret = Raised THEN
            Loaded("Error loading spots data", None, None, <<>>,
                   EmptyCache, out.parquet, out.cache_dir, TRUE, TRUE)
        ELSE
            Loaded("", out.ret, out.ret, processing_manifest.spot_channels,
                   [data |-> out.ret,
                    last_loaded |-> V("now"),
                    target_key |-> V(dataset),
                    processing_manifest |-> processing_manifest,
                    spot_channels_from_manifest |->
                        V(processing_manifest.spot_channels),
                    sankey_data |-> None],
                   out.parquet, out.cache_dir, TRUE, TRUE)

\* Lines 286-336: the manifest is resolved and loaded, the merged table is
\* loaded, and the cache entry is replaced.  to_pandas keeps every cell of
\* the tables of this model.
reload(cache, dataset, file, dir, content, valid_spots_only, env) ==
    LET out == load_and_merge_spots_from_s3(file, dir, content,
                                            valid_spots_only, env.load)
        processing_manifest == ManifestOf(dataset)
    IN  IF ~env.manifest_found THEN
            Loaded("Failed to find processing manifest", None, None, <<>>,
                   cache, file, dir, TRUE, FALSE)
        ELSE IF ~env.manifest_loaded THEN
            Loaded("Failed to load processing manifest", None, None, <<>>,
                   cache, file, dir, TRUE, FALSE)
        ELSE IF out.ret = None THEN
            Loaded("Failed to load spots data", None, None, <<>>,
                   cache, out.parquet, out.cache_dir, TRUE, TRUE)
        ELSE IF out.ret = Raised THEN
            Loaded("Error loading spots data", None, None, <<>>,
                   cache, out.parquet, out.cache_dir, TRUE, TRUE)
        ELSE
            Loaded("", out.ret, out.ret, processing_manifest.spot_channels,
                   [data |-> out.ret,
                    last_loaded |-> V("now"),
                    target_key |-> V(dataset),
                    processing_manifest |-> processing_manifest,
                    spot_channels_from_manifest |->
                        V(processing_manifest.spot_channels),
                    sankey_data |-> None],
                   out.parquet, out.cache_dir, TRUE, TRUE)

\* Line 374: plot_df['reassigned'] = plot_df['chan'] != plot_df['unmixed_chan']
with_reassigned(df) ==
    with_columns(df, "reassigned",
                 [i \in 1..Height(df) |->
                    V(df.rows[i]["chan"] # df.rows[i]["unmixed_chan"])])

\* Line 43: the default sample_size of a data request.
SAMPLE_SIZE == 5000

\* The sample sizes a request asks for: fewer rows than any table of the
\* model has, and the default.
SampleSizes == {1, SAMPLE_SIZE}

\* What the random generator of df.sample can decide.
RandomStates == {1, 2, 3}

\* df.sample(n=n, random_state=None): n rows of df, here the n rows that
\* follow the position the generator picked, wrapping around.
sample(df, n, random_state) ==
    Table(df.cols,
          [k \in 1..n |-> df.rows[((random_state + k - 2) % Height(df)) + 1]])

\* Lines 365-370: the table is subsampled when it has more rows than asked for.
subsample(df, sample_size, random_state) ==
    IF Height(df) > sample_size THEN sample(df, sample_size, random_state)
    ELSE df

\* A variant that summarises the flows of the rows that are plotted.
sankey_input_sampled(loaded, plot_df) == select(plot_df, {"chan", "unmixed_chan"})

\* Lines 471-480: the table the flow summary is computed from.
sankey_input(loaded, plot_df) ==
    IF loaded.df_polars # None THEN loaded.df_polars
    ELSE select(loaded.df, {"chan", "unmixed_chan"})

\* The response of get_real_spots_data, with what the request was and did.
\* request holds the parameters of the request, what the random generator
\* decided, and the memoized table and the parquet file the request found.
RealSpotsResponse(status, error, request, loaded, pairs, spots, sankey) ==
    [endpoint |-> "real_spots_data", status |-> status, error |-> error,
     sample_size |-> request.sample_size,
     force_refresh |-> request.force_refresh,
     valid_spots_only |-> request.valid_spots_only,
     memo_before |-> request.memo_before,
     artifact_before |-> request.artifact_before,
     resolver_invoked |-> loaded.resolver_invoked,
     merger_invoked |-> loaded.merger_invoked,
     channel_pairs |-> pairs, spots_data |-> spots, sankey_data |-> sankey]

\* Lines 365-505: the pair [cache, response] the handler ends with.  The related
\* files (ratios, summary statistics) and the fused paths are only read and
\* formatted and are not carried.
respond(loaded, request) ==
    LET plot_df == with_reassigned(subsample(loaded.df, request.sample_size,
                                             request.random_state))
        channel_pairs ==
            IF loaded.spot_channels # <<>>
            THEN combinations(sorted(loaded.spot_channels))
            ELSE get_channel_pairs(plot_df)
        all_needed_cols ==
            required_cols
            \cup UNION { {intensity_col(pair[1]), intensity_col(pair[2])} :
                            pair \in Range(channel_pairs) }
        from_cache == ~request.force_refresh /\ loaded.cache.sankey_data # None
        sankey_data ==
            IF from_cache THEN loaded.cache.sankey_data
            ELSE calculate_sankey_data_from_polars(sankey_input(loaded, plot_df))
        failure(error) ==
            [cache |-> loaded.cache,
             response |-> RealSpotsResponse(500, error, request, loaded,
                                            <<>>, None, None)]
    IN  IF loaded.error # "" THEN failure(loaded.error)
        ELSE IF ~({"chan", "unmixed_chan"} \subseteq loaded.df.cols) THEN
            failure("Internal Server Error")
        ELSE IF channel_pairs = <<>> THEN
            failure("Could not determine channel pairs")
        ELSE IF ~(all_needed_cols \subseteq plot_df.cols) THEN
            failure("Missing columns")
        ELSE
            [cache |-> [loaded.cache EXCEPT !.sankey_data = sankey_data],
             response |-> RealSpotsResponse(200, "", request, loaded,
                              channel_pairs, select(plot_df, all_needed_cols),
                              sankey_data)]

\* GET /api/real_spots_data (lines 252-505)
GetRealSpotsData ==
    \E force_refresh \in BOOLEAN, valid_spots_only \in BOOLEAN :
      \E loaded \in
            { IF use_cached(force_refresh, df_cache.data)
              THEN serve_cached(df_cache, DATA_PREFIX, parquet[DATA_PREFIX],
                                cache_dir[DATA_PREFIX], env)
              ELSE reload(df_cache, DATA_PREFIX, parquet[DATA_PREFIX],
                          cache_dir[DATA_PREFIX], remote[DATA_PREFIX],
                          valid_spots_only, env) : env \in AppEnvs } :
       \E sample_size \in SampleSizes :
        \E random_state \in
              (IF loaded.error = "" /\ Height(loaded.df) > sample_size
               THEN {r \in RandomStates : r <= Height(loaded.df)} ELSE {1}) :
        \E end \in { respond(loaded,
                              [sample_size |-> sample_size,
                               random_state |-> random_state,
                               force_refresh |-> force_refresh,
                               valid_spots_only |-> valid_spots_only,
                               memo_before |-> df_cache.data,
                               artifact_before |-> parquet[DATA_PREFIX]]) } :
            /\ parquet' = [parquet EXCEPT ![DATA_PREFIX] = loaded.parquet]
            /\ cache_dir' = [cache_dir EXCEPT ![DATA_PREFIX] = loaded.cache_dir]
            /\ df_cache' = end.cache
            /\ response' = end.response
            /\ UNCHANGED <<DATA_PREFIX, remote, call, mergeVars, pureVars, locateVars, sessionVars, concVars>>

----------------------------------------------------------------------------
(* app.py: download_dataset and set_active_dataset *)

\* The response of a dataset endpoint, with the dataset that was active when
\* the request arrived.
DatasetResponse(endpoint, status, dataset_name) ==
    [endpoint |-> endpoint, status |-> status, dataset_name |-> dataset_name,
     previous |-> DATA_PREFIX]

\* POST /api/datasets/download (lines 587-684).  Downloading the manifest
\* into the cache creates the dataset's cache directory (s3_handler.py line
\* 283); the merged parquet file is then built with the default
\* valid_spots_only=True, and a failure to build it is only logged.
DownloadDataset ==
    \E dataset_name \in Datasets \cup {""} :
      \E done \in
            { IF dataset_name = "" THEN
                  [status |-> 400, dir |-> FALSE, file |-> Absent]
              ELSE IF ~env.manifest_found THEN
                  [status |-> 404, dir |-> cache_dir[dataset_name],
                   file |-> parquet[dataset_name]]
              ELSE IF ~env.manifest_loaded \/ ~env.load.unmixed_found THEN
                  [status |-> IF env.manifest_loaded THEN 404 ELSE 500,
                   dir |-> TRUE, file |-> parquet[dataset_name]]
              ELSE
                  [status |-> 200, dir |-> TRUE,
                   file |-> load_and_merge_spots_from_s3(
                                parquet[dataset_name], TRUE,
                                remote[dataset_name], TRUE, env.load).parquet]
              : env \in AppEnvs } :
        /\ response' = DatasetResponse("download", done.status, dataset_name)
        /\ IF dataset_name = "" THEN UNCHANGED <<cache_dir, parquet>>
           ELSE /\ cache_dir' = [cache_dir EXCEPT ![dataset_name] = done.dir]
                /\ parquet' = [parquet EXCEPT ![dataset_name] = done.file]
        /\ UNCHANGED <<DATA_PREFIX, df_cache, remote, call, mergeVars, pureVars, locateVars, sessionVars, concVars>>

\* A variant of the switch that keeps the memoized table.
SetActiveDatasetKeepingTable ==
    \E dataset_name \in Datasets \cup {""} :
        IF dataset_name = "" THEN
            /\ response' = DatasetResponse("set_active", 400, dataset_name)
            /\ UNCHANGED <<DATA_PREFIX, df_cache, loadVars, mergeVars, pureVars, locateVars, sessionVars, concVars>>
        ELSE IF ~cache_dir[dataset_name] THEN
            /\ response' = DatasetResponse("set_active", 404, dataset_name)
            /\ UNCHANGED <<DATA_PREFIX, df_cache, loadVars, mergeVars, pureVars, locateVars, sessionVars, concVars>>
        ELSE
            /\ DATA_PREFIX' = dataset_name
            /\ response' = DatasetResponse("set_active", 200, dataset_name)
            /\ UNCHANGED <<df_cache, loadVars, mergeVars, pureVars, locateVars, sessionVars, concVars>>

\* POST /api/datasets/set-active (lines 686-722)
SetActiveDataset ==
    \E dataset_name \in Datasets \cup {""} :
        IF dataset_name = "" THEN
            /\ response' = DatasetResponse("set_active", 400, dataset_name)
            /\ UNCHANGED <<DATA_PREFIX, df_cache, loadVars, mergeVars, pureVars, locateVars, sessionVars, concVars>>
        ELSE IF ~cache_dir[dataset_name] THEN
            /\ response' = DatasetResponse("set_active", 404, dataset_name)
            /\ UNCHANGED <<DATA_PREFIX, df_cache, loadVars, mergeVars, pureVars, locateVars, sessionVars, concVars>>
        ELSE
            /\ DATA_PREFIX' = dataset_name
            /\ df_cache' = [df_cache EXCEPT
                               !.data = None,
                               !.last_loaded = Null,
                               !.target_key = Null,
                               !.processing_manifest = None,
                               !.spot_channels_from_manifest = Null]
            /\ response' = DatasetResponse("set_active", 200, dataset_name)
            /\ UNCHANGED <<loadVars, mergeVars, pureVars, locateVars, sessionVars, concVars>>

----------------------------------------------------------------------------
(* Spec: the application *)

Init ==
    /\ InitStore
    /\ InitIdleApp
    /\ InitIdlePure
    /\ spots_mixed = Table({}, <<>>)
    /\ spots_unmixed = Table({}, <<>>)
    /\ merged = None

\* Someone uploads other spot files for a dataset while the app runs.
RemoteChange ==
    \E d \in Datasets :
      \E content \in ContentsOf(d) :
        /\ remote[d] # content
        /\ remote' = [remote EXCEPT ![d] = content]
        /\ response' = NoResponse
        /\ UNCHANGED <<parquet, cache_dir, call, mergeVars, pureVars, locateVars, sessionVars, concVars, DATA_PREFIX, df_cache>>

Next ==
    \/ GetRealSpotsData
    \/ DownloadDataset
    \/ SetActiveDataset
    \/ RemoteChange

Spec == Init /\ [][Next]_vars

----------------------------------------------------------------------------
(* Claims about the app's cache entry, checked under Spec *)

DataRequest == response.endpoint = "real_spots_data"

\* The request found a memo entry and did not force a refresh.
MemoHit == ~response.force_refresh /\ response.memo_before # None

\* The rows the response carries are rows of the memo entry as it stands:
\* all of them, or sample_size of them when the entry has more.
ServesMemo ==
    /\ response.status = 200
    /\ df_cache.data # None
    /\ LET whole == select(with_reassigned(df_cache.data), response.spots_data.cols)
       IN  /\ Range(response.spots_data.rows) \subseteq Range(whole.rows)
           /\ Height(response.spots_data) =
                  IF Height(whole) > response.sample_size
                  THEN response.sample_size ELSE Height(whole)
           /\ Height(whole) <= response.sample_size => response.spots_data = whole

\* The tables the merger can have returned to the request: the view, per the
\* request's flag, of the parquet file or of the merge of the remote files.
MergerResults ==
    { ExpectedView(full, response.valid_spots_only) :
        full \in {MergedOf[remote[DATA_PREFIX]]}
                 \cup (IF parquet[DATA_PREFIX].kind = "parquet"
                       THEN {parquet[DATA_PREFIX].table} ELSE {}) }

ManifestErrors ==
    {"Failed to find processing manifest", "Failed to load processing manifest"}

MergerErrors == {"Failed to load spots data", "Error loading spots data"}

\* C5 (as stated): a data request serves the memoized entry without invoking
\* the manifest resolver or the table merger when force_refresh is false and
\* a memo entry exists; otherwise it invokes both, replaces the memo entry
\* with the new result and serves that entry.
C5_Original ==
    DataRequest =>
        IF MemoHit
        THEN /\ ~response.resolver_invoked
             /\ ~response.merger_invoked
             /\ df_cache.data = response.memo_before
        ELSE /\ response.resolver_invoked
             /\ response.merger_invoked
             /\ df_cache.data \in MergerResults

\* C5 (amended): on a memo hit the request never invokes the table merger and
\* leaves the memoized table as it was, and it invokes the manifest resolver
\* only when the memoized channel list is empty; otherwise it invokes the
\* manifest resolver and, once the manifest is found and loaded, the table
\* merger, and when the merger returns a table that table replaces the memo
\* entry.  A successful response serves the rows of the memo entry.
C5_MemoOrReload ==
    DataRequest =>
        /\ MemoHit =>
            /\ ~response.merger_invoked
            /\ df_cache.data = response.memo_before
            /\ response.resolver_invoked =>
                    df_cache.spot_channels_from_manifest \in {Null, V(<<>>)}
        /\ ~MemoHit =>
            /\ response.resolver_invoked
            /\ response.merger_invoked <=> response.error \notin ManifestErrors
            /\ response.error \notin ManifestErrors \cup MergerErrors =>
                    /\ df_cache.data \in MergerResults
                    /\ df_cache.last_loaded # Null
            /\ response.error \in ManifestErrors \cup MergerErrors =>
                    df_cache.data = response.memo_before
        /\ response.status = 200 => ServesMemo

\* A forced refresh replaced a memoized table by another one and served it.
C5_Witness ==
    /\ DataRequest
    /\ response.force_refresh
    /\ response.memo_before # None
    /\ response.merger_invoked
    /\ df_cache.data # response.memo_before
    /\ ServesMemo

\* C6: after the active dataset is switched by set_active_dataset, every
\* field of the cache entry is cleared: table, manifest, channel list and
\* flow summary.
C6_SwitchClearsEntry ==
    ( /\ response.endpoint = "set_active"
      /\ response.status = 200
      /\ response.previous # response.dataset_name ) =>
        df_cache = EmptyCache

----------------------------------------------------------------------------
(* Further claims about load_and_merge_spots_from_s3, checked under SpecLoad *)

WriteOps == {"mkdir", "write_parquet"}

C12_Original ==
    (call # NoCall /\ IsTable(call.ret)) =>
        parquet[call.dataset_name].kind = "parquet"

\* C12 (amended): whenever a call returns a table and its persist step, if it
\* was reached, raised no error, a merged artifact holding the full merged
\* table exists at the cache path when the call returns.
C12_ArtifactUnlessPersistFailed ==
    (call # NoCall /\ IsTable(call.ret) /\ ~call.persist_failed) =>
        /\ parquet[call.dataset_name].kind = "parquet"
        /\ cache_dir[call.dataset_name]
        /\ call.ret = ExpectedView(parquet[call.dataset_name].table,
                                   call.valid_spots_only)

\* A call that found no file merged, wrote the artifact and returned a table.
C12_Witness ==
    /\ call # NoCall
    /\ call.before = Absent
    /\ IsTable(call.ret)
    /\ "write_parquet" \in Range(call.ops)
    /\ parquet[call.dataset_name].kind = "parquet"

----------------------------------------------------------------------------
(* SpecConcurrent: concurrent callers of load_and_merge_spots_from_s3 *)

\* The function takes no lock and writes the parquet file in place, so the
\* callers interleave statement by statement.  A file that is being written
\* is at the cache path, partly written: Corrupt.  Persist errors are those
\* of SpecLoad and are left out here.

Caller(c) == callers[c]

At(c, pc) == callers[c].pc = pc

Goto(c, pc) == callers' = [callers EXCEPT ![c].pc = pc]

\* return value: the caller leaves the function.
Return(c, value) ==
    callers' = [callers EXCEPT ![c].pc = "done", ![c].ret = value]

\* The call: lines 219-238.
Call(c) ==
    /\ At(c, "idle")
    /\ \E dataset_name \in Datasets, valid_spots_only \in BOOLEAN :
          callers' = [callers EXCEPT ![c] =
                         [Idle EXCEPT !.pc = "exists",
                                      !.dataset_name = dataset_name,
                                      !.valid_spots_only = valid_spots_only]]
    /\ UNCHANGED <<loadVars, mergeVars, pureVars, locateVars, sessionVars, DATA_PREFIX, df_cache, response>>

\* Line 241: parquet_file.exists()
Exists(c) ==
    /\ At(c, "exists")
    /\ IF parquet[Caller(c).dataset_name] # Absent
       THEN Goto(c, "read_parquet")
       ELSE Goto(c, "list_unmixed")
    /\ UNCHANGED <<loadVars, mergeVars, pureVars, locateVars, sessionVars, DATA_PREFIX, df_cache, response>>

\* Lines 243-260: read, optimize, filter and return, or fall through.  The
\* caller notes whether the file it read was complete.
ReadParquet(c) ==
    /\ At(c, "read_parquet")
    /\ LET file == parquet[Caller(c).dataset_name]
           valid_spots_only == Caller(c).valid_spots_only
       IN  IF file.kind # "parquet" THEN
               callers' = [callers EXCEPT ![c].pc = "list_unmixed",
                                          ![c].observed = "partial"]
           ELSE IF \/ cast_raises(file.table)
                   \/ filter_raises(optimize_dtypes(file.table), valid_spots_only)
           THEN
               callers' = [callers EXCEPT ![c].pc = "list_unmixed",
                                          ![c].observed = "complete"]
           ELSE
               callers' = [callers EXCEPT
                   ![c].pc = "done",
                   ![c].observed = "complete",
                   ![c].ret = filtered(optimize_dtypes(file.table),
                                       valid_spots_only)]
    /\ UNCHANGED <<loadVars, mergeVars, pureVars, locateVars, sessionVars, DATA_PREFIX, df_cache, response>>

\* One remote step (a listing, a download, the unpickling): it succeeds and
\* the caller goes on, or it fails and the caller returns None.
RemoteStep(c, pc, next) ==
    /\ At(c, pc)
    /\ \E ok \in BOOLEAN : IF ok THEN Goto(c, next) ELSE Return(c, None)
    /\ UNCHANGED <<loadVars, mergeVars, pureVars, locateVars, sessionVars, DATA_PREFIX, df_cache, response>>

\* Lines 268-275
ListUnmixed(c) == RemoteStep(c, "list_unmixed", "list_mixed")

\* Lines 278-287
ListMixed(c) == RemoteStep(c, "list_mixed", "download_unmixed")

\* Lines 297-307
DownloadUnmixed(c) == RemoteStep(c, "download_unmixed", "download_mixed")

\* Lines 310-320
DownloadMixed(c) == RemoteStep(c, "download_mixed", "read_pickle")

\* Lines 323-335
ReadPickle(c) == RemoteStep(c, "read_pickle", "merge")

\* Lines 338-344
Merge(c) ==
    /\ At(c, "merge")
    /\ LET df_merged == MergedOf[remote[Caller(c).dataset_name]]
       IN  IF df_merged = None THEN Return(c, None)
           ELSE callers' = [callers EXCEPT ![c].pc = "mkdir",
                                           ![c].df = df_merged]
    /\ UNCHANGED <<loadVars, mergeVars, pureVars, locateVars, sessionVars, DATA_PREFIX, df_cache, response>>

\* Line 349: cache_dir.mkdir(parents=True, exist_ok=True)
Mkdir(c) ==
    /\ At(c, "mkdir")
    /\ cache_dir' = [cache_dir EXCEPT ![Caller(c).dataset_name] = TRUE]
    /\ Goto(c, "open_parquet")
    /\ UNCHANGED <<remote, parquet, call, mergeVars, pureVars, locateVars, sessionVars, DATA_PREFIX, df_cache,
                   response>>

\* Line 352, first part: write_parquet creates or truncates the file at the
\* cache path and starts writing into it.
OpenParquet(c) ==
    /\ At(c, "open_parquet")
    /\ parquet' = [parquet EXCEPT ![Caller(c).dataset_name] = Corrupt]
    /\ Goto(c, "write_parquet")
    /\ UNCHANGED <<remote, cache_dir, call, mergeVars, pureVars, locateVars, sessionVars, DATA_PREFIX, df_cache,
                   response>>

\* Line 352, second part: the last bytes are written.  If another caller is
\* writing the same file, what the file holds is either caller's bytes or a
\* mix of them.
WriteParquet(c) ==
    /\ At(c, "write_parquet")
    /\ \E file \in {Stored(Caller(c).df)} \cup
                   (IF \E o \in Callers \ {c} :
                          /\ At(o, "write_parquet")
                          /\ Caller(o).dataset_name = Caller(c).dataset_name
                    THEN {Corrupt} ELSE {}) :
          parquet' = [parquet EXCEPT ![Caller(c).dataset_name] = file]
    /\ Goto(c, "filter")
    /\ UNCHANGED <<remote, cache_dir, call, mergeVars, pureVars, locateVars, sessionVars, DATA_PREFIX, df_cache,
                   response>>

\* Lines 359-369
Filter(c) ==
    /\ At(c, "filter")
    /\ Return(c, IF filter_raises(Caller(c).df, Caller(c).valid_spots_only)
                 THEN Raised
                 ELSE filtered(Caller(c).df, Caller(c).valid_spots_only))
    /\ UNCHANGED <<loadVars, mergeVars, pureVars, locateVars, sessionVars, DATA_PREFIX, df_cache, response>>

\* The caller has its result and may call again.
Done(c) ==
    /\ At(c, "done")
    /\ callers' = [callers EXCEPT ![c] = Idle]
    /\ UNCHANGED <<loadVars, mergeVars, pureVars, locateVars, sessionVars, DATA_PREFIX, df_cache, response>>

InitConcurrent ==
    /\ InitIdleLoad
    /\ InitIdleApp
    /\ InitIdlePure
    /\ spots_mixed = Table({}, <<>>)
    /\ spots_unmixed = Table({}, <<>>)
    /\ merged = None

NextConcurrent ==
    \E c \in Callers :
        \/ Call(c)
        \/ Exists(c)
        \/ ReadParquet(c)
        \/ ListUnmixed(c)
        \/ ListMixed(c)
        \/ DownloadUnmixed(c)
        \/ DownloadMixed(c)
        \/ ReadPickle(c)
        \/ Merge(c)
        \/ Mkdir(c)
        \/ OpenParquet(c)
        \/ WriteParquet(c)
        \/ Filter(c)
        \/ Done(c)

SpecConcurrent == InitConcurrent /\ [][NextConcurrent]_vars

----------------------------------------------------------------------------
(* Claims about concurrent callers, checked under SpecConcurrent *)

\* The caller is inside the sequence: check cache, else download and merge,
\* write cache.
InSequence(c) ==
    Caller(c).pc \in {"exists", "read_parquet", "list_unmixed", "list_mixed",
                      "download_unmixed", "download_mixed", "read_pickle",
                      "merge", "mkdir", "open_parquet", "write_parquet"}

\* C13: of the concurrent callers for one dataset, at most one is at any time
\* inside the sequence check cache, else download and merge, write cache.
C13_OneMergeAtATime ==
    \A d \in Datasets :
        Cardinality({ c \in Callers :
                        Caller(c).dataset_name = d /\ InSequence(c) }) <= 1

\* C14: a caller that reads the cache path while another caller is writing it
\* observes no artifact or a complete one, never a partial one.
C14_AtomicWrite ==
    \A c \in Callers : Caller(c).observed # "partial"

\* The operations of a call after its look at the local file.
RemoteTail(ops) ==
    IF ops # <<>> /\ ops[1] = "read_parquet" THEN Tail(ops) ELSE ops

CacheMiss == call # NoCall /\ "list_unmixed" \in Range(call.ops)

C16_DownloadFailureAborts ==
    (/\ CacheMiss
     /\ call.env.unmixed_found
     /\ call.env.mixed_found
     /\ ~(call.env.unmixed_downloaded /\ call.env.mixed_downloaded)) =>
        /\ call.ret = None
        /\ Range(call.ops) \cap ({"read_pickle", "merge"} \cup WriteOps) = {}
        /\ parquet[call.dataset_name] = call.before
        /\ call.error \in {"Failed to download unmixed spots file",
                           "Failed to download mixed spots file"}

C16_Witness ==
    /\ CacheMiss
    /\ call.env.unmixed_downloaded
    /\ ~call.env.mixed_downloaded
    /\ "download_mixed" \in Range(call.ops)
    /\ call.ret = None
    /\ MergedOf[remote[call.dataset_name]] # None

----------------------------------------------------------------------------
(* SpecDtypes: optimize_dtypes over bounded tables whose integer columns     *)
(* hold values at and beyond the ends of the types they are cast to          *)

\* The most rows an input table of SpecDtypes has.
MaxDtypeRows == 2

DtypeCols == {"chan", "round", "chan_spot_id"}

\* Values of round around the ends of the signed 8-bit range, and of
\* chan_spot_id up to the end of the signed 32-bit range.
RoundCells == {Null, V(-Int8Max - 2), V(-Int8Max - 1), V(1), V(Int8Max), V(Int8Max + 1)}

ChanSpotIdCells == {V(1), V(Int32Max)}

DtypeRows ==
    { [c \in DtypeCols |->
        CASE c = "chan" -> V("488")
          [] c = "round" -> r
          [] c = "chan_spot_id" -> id] :
        r \in RoundCells, id \in ChanSpotIdCells }

InitDtypes ==
    /\ \E rows \in SeqsUpTo(DtypeRows, MaxDtypeRows) :
          dtypes_df = Table(DtypeCols, rows)
    /\ dtypes_out = None
    /\ InitIdleManifest
    /\ InitIdleSankey
    /\ spots_mixed = Table({}, <<>>)
    /\ spots_unmixed = Table({}, <<>>)
    /\ merged = None
    /\ InitIdleLoad
    /\ InitIdleApp
    /\ InitIdleLocate
    /\ InitIdleSession

\* dtypes_out = optimize_dtypes(dtypes_df), or the error df.cast raised
OptimizeDtypes ==
    /\ dtypes_out = None
    /\ dtypes_out' = IF cast_raises(dtypes_df) THEN Raised
                     ELSE optimize_dtypes(dtypes_df)
    /\ UNCHANGED <<dtypes_df, s3_objects, manifest_search, flow_df, flow_summary>>
    /\ UNCHANGED <<mergeVars, loadVars, appVars, concVars, locateVars, sessionVars>>

NextDtypes == OptimizeDtypes

SpecDtypes == InitDtypes /\ [][NextDtypes]_vars

----------------------------------------------------------------------------
(* Claims about optimize_dtypes, checked under SpecDtypes *)

\* Some value of the column lies outside the type optimize_dtypes casts it to.
OutOfRange(df, col) ==
    \E i \in 1..Height(df) :
        /\ df.rows[i][col] # Null
        /\ \/ df.rows[i][col][1] > int_max(col)
           \/ df.rows[i][col][1] < -int_max(col) - 1

\* C17: when a round value lies outside the signed 8-bit range, or a
\* chan_spot_id value outside the signed 32-bit range, optimize_dtypes
\* succeeds and every value of its result is the value of the input.
C17_WideValuesKept ==
    (/\ dtypes_out # None
     /\ \E col \in int_cols \cap dtypes_df.cols : OutOfRange(dtypes_df, col)) =>
        /\ dtypes_out # Raised
        /\ dtypes_out = dtypes_df

----------------------------------------------------------------------------
(* SpecManifest: find_processing_manifest against every state of the two     *)
(* candidate objects of each dataset                                        *)

\* A variant that tries the derived folder first.
possible_paths_derived_first(dataset_name) ==
    <<dataset_name \o "/derived/processing_manifest.json",
      dataset_name \o "/processing_manifest.json">>

\* Lines 33-36: the candidate keys, in the order they are tried.
possible_paths(dataset_name) ==
    <<dataset_name \o "/processing_manifest.json",
      dataset_name \o "/derived/processing_manifest.json">>

ManifestKeys == UNION {Range(possible_paths(d)) : d \in Datasets}

\* What the bucket holds at a key, as head_object sees it:
\*   present      the object exists and head_object answers with its metadata
\*   absent       there is no object: head_object fails with 404
\*   unreachable  the object exists and head_object fails with another error
ObjectStates == {"present", "absent", "unreachable"}

\* s3_handler.py 174-214: the metadata of the object, or None after any error
\* of head_object, whatever its code.
get_object_metadata(objects, key) ==
    IF objects[key] = "present" THEN [ETag |-> key] ELSE None

HeadObject(key) == [op |-> "head_object", key |-> key]

\* The key find_processing_manifest returns when it returns one.
Key(key) == [key |-> key]

\* Lines 42-54: the loop over possible_paths from position i on; probes are
\* the requests made so far.
RECURSIVE probe_from(_, _, _, _)
probe_from(objects, paths, i, probes) ==
    IF i > Len(paths) THEN [ret |-> None, probes |-> probes]
    ELSE IF get_object_metadata(objects, paths[i]) # None
         THEN [ret |-> Key(paths[i]), probes |-> Append(probes, HeadObject(paths[i]))]
         ELSE probe_from(objects, paths, i + 1,
                         Append(probes, HeadObject(paths[i])))

\* Lines 21-59.
find_processing_manifest(objects, dataset_name) ==
    probe_from(objects, possible_paths(dataset_name), 1, <<>>)

InitManifest ==
    /\ s3_objects \in [ManifestKeys -> ObjectStates]
    /\ manifest_search = None
    /\ InitIdleDtypes
    /\ InitIdleSankey
    /\ spots_mixed = Table({}, <<>>)
    /\ spots_unmixed = Table({}, <<>>)
    /\ merged = None
    /\ InitIdleLoad
    /\ InitIdleApp
    /\ InitIdleLocate
    /\ InitIdleSession

\* find_processing_manifest(bucket, dataset_name)
FindProcessingManifest ==
    \E dataset_name \in Datasets :
        LET found == find_processing_manifest(s3_objects, dataset_name)
        IN  /\ manifest_search' = [dataset_name |-> dataset_name,
                                   ret |-> found.ret,
                                   probes |-> found.probes]
            /\ UNCHANGED <<s3_objects, dtypes_df, dtypes_out, flow_df, flow_summary>>
            /\ UNCHANGED <<mergeVars, loadVars, appVars, concVars, locateVars, sessionVars>>

NextManifest == FindProcessingManifest

SpecManifest == InitManifest /\ [][NextManifest]_vars

----------------------------------------------------------------------------
(* Claims about find_processing_manifest, checked under SpecManifest *)

TopLevelKey(dataset_name) == dataset_name \o "/processing_manifest.json"

DerivedKey(dataset_name) == dataset_name \o "/derived/processing_manifest.json"

ObjectExists(key) == s3_objects[key] # "absent"

\* The order of the probes and their kind: the top-level key first, the
\* derived key second and only after the first gave nothing, and nothing but
\* head_object requests.
ProbesInOrder(top, derived, top_answers) ==
    /\ manifest_search.probes =
          IF top_answers THEN <<HeadObject(top)>>
          ELSE <<HeadObject(top), HeadObject(derived)>>
    /\ \A i \in 1..Len(manifest_search.probes) :
          manifest_search.probes[i].op = "head_object"

\* C18 as stated: the top-level key is returned whenever that object exists,
\* the derived key only when the top-level object does not exist, and None
\* when neither exists.
C18_Original ==
    manifest_search # None =>
        LET top == TopLevelKey(manifest_search.dataset_name)
            derived == DerivedKey(manifest_search.dataset_name)
        IN  /\ ObjectExists(top) => manifest_search.ret = Key(top)
            /\ manifest_search.ret = Key(derived) => ~ObjectExists(top)
            /\ (~ObjectExists(top) /\ ~ObjectExists(derived)) =>
                  manifest_search.ret = None

\* C18: find_processing_manifest probes the top-level key first and the
\* derived key second, with head_object requests only; it returns the
\* top-level key whenever the metadata check of that object answers, the
\* derived key only when the check of the top-level object gives nothing and
\* that of the derived object answers, and None when neither check answers.
C18_PriorityOrder ==
    manifest_search # None =>
        LET top == TopLevelKey(manifest_search.dataset_name)
            derived == DerivedKey(manifest_search.dataset_name)
            top_answers == s3_objects[top] = "present"
            derived_answers == s3_objects[derived] = "present"
        IN  /\ ProbesInOrder(top, derived, top_answers)
            /\ top_answers => manifest_search.ret = Key(top)
            /\ (~top_answers /\ derived_answers) => manifest_search.ret = Key(derived)
            /\ (~top_answers /\ ~derived_answers) => manifest_search.ret = None

C18_Witness ==
    /\ manifest_search # None
    /\ s3_objects[TopLevelKey(manifest_search.dataset_name)] = "absent"
    /\ s3_objects[DerivedKey(manifest_search.dataset_name)] = "present"
    /\ manifest_search.ret = Key(DerivedKey(manifest_search.dataset_name))
    /\ Len(manifest_search.probes) = 2

----------------------------------------------------------------------------
(* SpecSankey: calculate_sankey_data_from_polars over tables given by the    *)
(* number of rows of each flow, small ones and ones of several thousand rows *)

FlowCols == {"chan", "unmixed_chan"}

FlowRow(chan, unmixed_chan) ==
    [c \in FlowCols |-> IF c = "chan" THEN chan ELSE unmixed_chan]

Repeat(row, n) == [i \in 1..n |-> row]

\* Rows that stay in channel 488: none, a few, or enough of them that 0.1% of
\* the rows is more than 5.
StayCounts == {0, 3, 5994, 7000}

\* Rows reassigned from 488 to 561, and rows of 561 that were removed: around
\* the thresholds 5, 6 and 7.
ReassignedCounts == {0, 4, 5, 6}

RemovedCounts == {0, 5, 6, 7}

\* The three ways the unmixed table says "removed" (lines 77-79).
RemovedCells == {Null, V("none"), V("")}

\* Rows without a channel.
NullChanCounts == {0, 6}

InitSankey ==
    /\ \E stay \in StayCounts, reassigned \in ReassignedCounts,
          removed \in RemovedCounts, cell \in RemovedCells,
          nulls \in NullChanCounts :
          /\ (removed # 5) => cell = Null
          /\ flow_df = Table(FlowCols,
                 Repeat(FlowRow(V("488"), V("488")), stay)
                 \o Repeat(FlowRow(V("488"), V("561")), reassigned)
                 \o Repeat(FlowRow(V("561"), cell), removed)
                 \o Repeat(FlowRow(Null, V("561")), nulls))
    /\ flow_summary = None
    /\ InitIdleDtypes
    /\ InitIdleManifest
    /\ spots_mixed = Table({}, <<>>)
    /\ spots_unmixed = Table({}, <<>>)
    /\ merged = None
    /\ InitIdleLoad
    /\ InitIdleApp
    /\ InitIdleLocate
    /\ InitIdleSession

\* flow_summary = calculate_sankey_data_from_polars(flow_df)
CalculateSankeyData ==
    /\ flow_summary = None
    /\ flow_summary' = calculate_sankey_data_from_polars(flow_df)
    /\ UNCHANGED <<flow_df, dtypes_df, dtypes_out, s3_objects, manifest_search>>
    /\ UNCHANGED <<mergeVars, loadVars, appVars, concVars, locateVars, sessionVars>>

NextSankey == CalculateSankeyData

SpecSankey == InitSankey /\ [][NextSankey]_vars

----------------------------------------------------------------------------
(* Claims about calculate_sankey_data_from_polars, checked under SpecSankey *)

\* The chan values and the final channels a row can have.
Origins == {Null, V("488"), V("561")}

Finals == {"488", "561", "Removed"}

\* The rows of flow_df that go from origin to final.
PairCount(origin, final) ==
    Cardinality({ i \in 1..Height(flow_df) :
                    /\ flow_df.rows[i]["chan"] = origin
                    /\ final_chan(flow_df.rows[i]) = final })

\* The links of flow_summary for the pair.
LinksOf(origin, final) ==
    { n \in 1..Len(flow_summary.links) :
        /\ flow_summary.links[n].source = origin_name(origin)
        /\ flow_summary.links[n].target = final }

\* max(5, floor(0.001 * total)), written out.
ExpectedThreshold(total) ==
    IF total >= 6000 THEN total \div 1000 ELSE 5

\* C19: the threshold is max(5, floor(0.001 * rows)); a pair has a link,
\* exactly one and with the pair's row count as its value, if and only if its
\* row count is at least the threshold; a table of fewer than 5 rows has no
\* link and total_spots is its row count.
C19_LinkIffAtThreshold ==
    flow_summary # None =>
        /\ flow_summary.threshold_used = ExpectedThreshold(Height(flow_df))
        /\ flow_summary.total_spots = Height(flow_df)
        /\ \A origin \in Origins, final \in Finals :
              /\ (LinksOf(origin, final) # {})
                    <=> (PairCount(origin, final) >= flow_summary.threshold_used)
              /\ Cardinality(LinksOf(origin, final)) <= 1
              /\ \A n \in LinksOf(origin, final) :
                    flow_summary.links[n].value = PairCount(origin, final)
        /\ Len(flow_summary.links)
              = Cardinality({p \in Origins \X Finals : LinksOf(p[1], p[2]) # {}})
        /\ (Height(flow_df) < 5) => flow_summary.links = <<>>

\* A table of more than 6000 rows in which a flow of 5 rows is dropped and a
\* flow of 6 rows is kept.
C19_Witness ==
    /\ flow_summary # None
    /\ flow_summary.threshold_used = 6
    /\ PairCount(V("488"), "561") = 5
    /\ LinksOf(V("488"), "561") = {}
    /\ PairCount(V("561"), "Removed") = 6
    /\ LinksOf(V("561"), "Removed") # {}

RECURSIVE SumTo(_, _)
SumTo(counts, k) == IF k = 0 THEN 0 ELSE counts[k] + SumTo(counts, k - 1)

\* The values of the links of flow_summary, as a sequence.
LinkValues == [n \in 1..Len(flow_summary.links) |-> flow_summary.links[n].value]

\* The counts of the groups that got no link, 0 for a group that got one.
DroppedCounts ==
    LET counts == flow_counts(flow_df)
    IN  [k \in 1..Len(FlowPairs) |->
            IF LinksOf(FlowPairs[k][1], FlowPairs[k][2]) = {} THEN counts[k]
            ELSE 0]

\* C20: the values of the links and the counts of the pairs dropped below the
\* threshold add up to the number of rows, and every link value is between 0
\* and total_spots.
C20_CountsSumToTotal ==
    flow_summary # None =>
        /\ SumTo(LinkValues, Len(LinkValues))
              + SumTo(DroppedCounts, Len(DroppedCounts)) = Height(flow_df)
        /\ \A n \in 1..Len(flow_summary.links) :
              /\ 0 <= flow_summary.links[n].value
              /\ flow_summary.links[n].value <= flow_summary.total_spots

\* Links were emitted, a pair was dropped, and rows without a channel are in
\* the table.
C20_Witness ==
    /\ flow_summary # None
    /\ flow_summary.links # <<>>
    /\ PairCount(Null, "561") > 0
    /\ \E k \in 1..Len(FlowPairs) : DroppedCounts[k] > 0

----------------------------------------------------------------------------
(* Further claims about get_real_spots_data, checked under Spec *)

\* C21: the flow summary a data request serves is that of the whole memoized
\* table: its total_spots is the row count of the memoized table and it is
\* what calculate_sankey_data_from_polars gives for that table, whatever the
\* sample size and whichever rows were sampled.
C21_SankeyFromFullTable ==
    (DataRequest /\ response.status = 200) =>
        /\ response.sankey_data # None
        /\ response.sankey_data.total_spots = Height(df_cache.data)
        /\ response.sankey_data =
              calculate_sankey_data_from_polars(
                  select(df_cache.data, {"chan", "unmixed_chan"}))

\* A request that served one sampled row of a memoized table of three rows.
C21_Witness ==
    /\ DataRequest
    /\ response.status = 200
    /\ response.sample_size = 1
    /\ Height(response.spots_data) = 1
    /\ Height(df_cache.data) = 3
    /\ response.sankey_data.total_spots = 3

----------------------------------------------------------------------------
(* Further claims about load_and_merge_spots_from_s3, checked under SpecLoad *)

\* C22: a call never ends with an exception: whenever it does not return a
\* table it returns None, also when valid_spots_only is set and the merged
\* table has no valid_spot column.
C22_NoExceptionEscapes ==
    call # NoCall =>
        /\ call.ret # Raised
        /\ (/\ call.valid_spots_only
            /\ CacheMiss
            /\ call.env = AllOk
            /\ MergedOf[remote[call.dataset_name]] # None
            /\ "valid_spot" \notin MergedOf[remote[call.dataset_name]].cols) =>
                call.ret = None

----------------------------------------------------------------------------
(* Claims about forced refresh, checked under Spec *)

\* C23: a data request with force_refresh=true that is answered serves the
\* merge of the remote files as they are now, and the parquet file of the
\* dataset holds that merge afterwards, also when a readable parquet file was
\* there before the request.
C23_ForceRefreshRemerges ==
    (/\ DataRequest
     /\ response.force_refresh
     /\ response.status = 200
     /\ response.artifact_before.kind = "parquet") =>
        LET current == MergedOf[remote[DATA_PREFIX]]
        IN  /\ current # None
            /\ parquet[DATA_PREFIX] = Stored(current)
            /\ df_cache.data = ExpectedView(current, response.valid_spots_only)

----------------------------------------------------------------------------
(* Further claims about merge_spots_tables, checked under SpecMerge *)

\* The keys of the rows of a table.
KeysOf(df) == {KeyOf(df.rows[i]) : i \in 1..Height(df)}

\* The number of rows of a table with the given key.
RowsWithKey(df, key) ==
    Cardinality({i \in 1..Height(df) : KeyOf(df.rows[i]) = key})

\* C24: every output row's key is the key of some mixed row, and an unmixed
\* row whose key matches no mixed row adds no row: a key has as many output
\* rows as it has mixed rows times the unmixed rows it matched (once each
\* when it matched none).
C24_UnmatchedUnmixedDropped ==
    merged # None =>
        /\ KeysOf(merged) = KeysOf(spots_mixed)
        /\ \A key \in KeysOf(merged) :
              RowsWithKey(merged, key) =
                  RowsWithKey(spots_mixed, key)
                      * Max(1, RowsWithKey(spots_unmixed, key))

\* A merge in which an unmixed row matched no mixed row and another did.
C24_Witness ==
    /\ merged # None
    /\ Height(merged) >= 1
    /\ KeysOf(spots_unmixed) \ KeysOf(spots_mixed) # {}
    /\ KeysOf(spots_unmixed) \cap KeysOf(spots_mixed) # {}

\* C25: when no column of the unmixed table is absent from the mixed table,
\* unmixed_removed is false in every output row.
C25_NoUniqueColumnsNeverRemoved ==
    (merged # None /\ UniqueToUnmixed = {}) =>
        \A i \in 1..Height(merged) :
            merged.rows[i]["unmixed_removed"] = V(FALSE)

\* A merge without unique unmixed columns in which one mixed row found its
\* key in the unmixed table and another did not.
C25_Witness ==
    /\ merged # None
    /\ UniqueToUnmixed = {}
    /\ Height(merged) = 2
    /\ KeysOf(spots_mixed) \ KeysOf(spots_unmixed) # {}
    /\ KeysOf(spots_unmixed) \cap KeysOf(spots_mixed) # {}

----------------------------------------------------------------------------
(* Claims about spot_id across calls, checked under SpecLoad *)

\* C26: a row a call returns has, for its (chan, chan_spot_id) key, the
\* spot_id the parquet file holds for that key, on the merging call and on
\* every cache hit, with valid_spots_only set or not; and the file changes
\* only in a call that merges again.
C26_SpotIdStable ==
    call # NoCall =>
        /\ (IsTable(call.ret) /\ parquet[call.dataset_name].kind = "parquet") =>
              LET artifact == parquet[call.dataset_name].table
              IN  \A i \in 1..Height(call.ret) :
                    /\ \E j \in 1..Height(artifact) :
                          KeyOf(artifact.rows[j]) = KeyOf(call.ret.rows[i])
                    /\ \A j \in 1..Height(artifact) :
                          KeyOf(artifact.rows[j]) = KeyOf(call.ret.rows[i]) =>
                              artifact.rows[j]["spot_id"]
                                  = call.ret.rows[i]["spot_id"]
        /\ "merge" \notin Range(call.ops) =>
              parquet[call.dataset_name] = call.before

\* A cache hit with valid_spots_only=True whose first returned row is not the
\* first row of the file: its spot_id is not its position.
C26_Witness ==
    /\ call # NoCall
    /\ CacheHit
    /\ call.repeated
    /\ call.valid_spots_only
    /\ IsTable(call.ret)
    /\ Height(call.ret) >= 1
    /\ call.ret.rows[1]["spot_id"] # V(1)

----------------------------------------------------------------------------
(* SpecLocate: the search for the two pickle files under the spots prefix  *)
(* (s3_utils.py:262-287).  A string is the sequence of its characters.     *)

\* unmixed_spots_prefix, with its trailing slash
SPOTS_PREFIX == <<"u", "/">>

unmixed_spots ==
    <<"u", "n", "m", "i", "x", "e", "d", "_", "s", "p", "o", "t", "s", "_">>

mixed_spots == <<"m", "i", "x", "e", "d", "_", "s", "p", "o", "t", "s", "_">>

minDist_3 == <<"_", "m", "i", "n", "D", "i", "s", "t", "_", "3">>

pkl == <<".", "p", "k", "l">>

\* "unmixed_spots_*.pkl", the pattern of the first search
UNMIXED_PATTERN == unmixed_spots \o <<"*">> \o pkl

\* f"mixed_spots_{base_pattern}.pkl", the pattern of the second search
mixed_pattern(base) == mixed_spots \o base \o pkl

\* "R3", returned for a filename without a round token
DEFAULT_ROUND == <<"R", "3">>

\* The keys a prefix may hold: unmixed files of several rounds, one with
\* the round as its last token and one without a round, and mixed files,
\* one of them twice in different folders.
BucketKeys ==
    {SPOTS_PREFIX \o unmixed_spots \o <<"R", "1">> \o minDist_3 \o pkl,
     SPOTS_PREFIX \o unmixed_spots \o <<"R", "3">> \o minDist_3 \o pkl,
     SPOTS_PREFIX \o unmixed_spots \o <<"R", "-", "1">> \o minDist_3 \o pkl,
     SPOTS_PREFIX \o unmixed_spots \o <<"R", "5">> \o pkl,
     SPOTS_PREFIX \o unmixed_spots \o Tail(minDist_3) \o pkl,
     SPOTS_PREFIX \o mixed_spots \o <<"R", "3">> \o pkl,
     SPOTS_PREFIX \o <<"a", "/">> \o mixed_spots \o <<"R", "3">> \o pkl,
     SPOTS_PREFIX \o mixed_spots \o <<"R", "5">> \o pkl,
     SPOTS_PREFIX \o mixed_spots \o <<"R", "-", "1">> \o pkl}

MaxKeys == 3

\* Path(key).name: what follows the last slash
RECURSIVE path_name(_)
path_name(key) ==
    IF \E i \in 1..Len(key) : key[i] = "/"
    THEN path_name(Tail(key))
    ELSE key

\* fnmatch.fnmatch(filename, pattern) for patterns of literal characters
\* and "*", which stands for any run of characters
RECURSIVE fnmatch(_, _)
fnmatch(filename, pattern) ==
    IF pattern = <<>> THEN filename = <<>>
    ELSE IF Head(pattern) = "*"
         THEN \/ fnmatch(filename, Tail(pattern))
              \/ filename # <<>> /\ fnmatch(Tail(filename), pattern)
         ELSE /\ filename # <<>>
              /\ Head(filename) = Head(pattern)
              /\ fnmatch(Tail(filename), Tail(pattern))

\* str.split(sep): the parts between the separators, empty parts included
RECURSIVE split(_, _)
split(s, sep) ==
    IF \E i \in 1..Len(s) : s[i] = sep
    THEN LET i == CHOOSE k \in 1..Len(s) :
                      s[k] = sep /\ \A j \in 1..(k - 1) : s[j] # sep
         IN  <<SubSeq(s, 1, i - 1)>> \o split(SubSeq(s, i + 1, Len(s)), sep)
    ELSE <<s>>

Digits == {"0", "1", "2", "3", "4", "5", "6", "7", "8", "9"}

\* str.isdigit(): not empty and every character a digit
isdigit(s) == s # <<>> /\ \A i \in 1..Len(s) : s[i] \in Digits

\* the condition of the loop of get_base_pattern_from_unmixed:
\* part.startswith("R") and (part[1:].isdigit() or part[1:] == '-1')
is_round_part(part) ==
    /\ part # <<>>
    /\ Head(part) = "R"
    /\ (isdigit(Tail(part)) \/ Tail(part) = <<"-", "1">>)

get_base_pattern_from_unmixed(unmixed_key) ==
    LET parts == split(path_name(unmixed_key), "_")
    IN  IF \E i \in 1..Len(parts) : is_round_part(parts[i])
        THEN parts[CHOOSE i \in 1..Len(parts) :
                       /\ is_round_part(parts[i])
                       /\ \A j \in 1..(i - 1) : ~is_round_part(parts[j])]
        ELSE DEFAULT_ROUND

\* s3_handler.list_objects: the keys under the prefix in the order the
\* service lists them, or the empty list when the listing fails
list_objects(keys) ==
    {objects \in UNION {[1..n -> keys] : n \in {0, Cardinality(keys)}} :
        \A i, j \in 1..Len(objects) : i # j => objects[i] # objects[j]}

\* the body find_unmixed_spots_file and find_mixed_spots_file share: the
\* first listed key whose filename matches
first_match(objects, pattern) ==
    LET found_files ==
            SelectSeq(objects, LAMBDA key : fnmatch(path_name(key), pattern))
    IN  IF objects = <<>> THEN None
        ELSE IF found_files = <<>> THEN None
        ELSE Key(found_files[1])

find_unmixed_spots_file(objects, pattern) == first_match(objects, pattern)

find_mixed_spots_file(objects, pattern) == first_match(objects, pattern)

FirstCall == [first_call |-> TRUE]

\* what the last search of the same kind for the same pattern returned
previous(fn, pattern) ==
    IF key_search # None /\ key_search.fn = fn /\ key_search.pattern = pattern
    THEN key_search.ret
    ELSE FirstCall

InitLocate ==
    /\ bucket_keys \in {keys \in SUBSET BucketKeys : Cardinality(keys) <= MaxKeys}
    /\ key_search = None
    /\ base_pattern = None
    /\ InitIdleDtypes
    /\ InitIdleManifest
    /\ InitIdleSankey
    /\ InitIdleSession
    /\ spots_mixed = Table({}, <<>>)
    /\ spots_unmixed = Table({}, <<>>)
    /\ merged = None
    /\ InitIdleLoad
    /\ InitIdleApp

\* 1. Find unmixed spots file
FindUnmixedSpotsFile ==
    \E objects \in list_objects(bucket_keys) :
        /\ key_search' =
               [fn |-> "find_unmixed_spots_file",
                pattern |-> UNMIXED_PATTERN,
                objects |-> objects,
                ret |-> find_unmixed_spots_file(objects, UNMIXED_PATTERN),
                previous |-> previous("find_unmixed_spots_file", UNMIXED_PATTERN)]
        /\ base_pattern' = None
        /\ UNCHANGED bucket_keys
        /\ UNCHANGED <<mergeVars, loadVars, appVars, concVars, pureVars, sessionVars>>

\* 2. the round of the unmixed file that was found
GetBasePatternFromUnmixed ==
    /\ key_search # None
    /\ key_search.fn = "find_unmixed_spots_file"
    /\ key_search.ret # None
    /\ base_pattern = None
    /\ base_pattern' =
           [unmixed_key |-> key_search.ret.key,
            ret |-> get_base_pattern_from_unmixed(key_search.ret.key)]
    /\ UNCHANGED <<bucket_keys, key_search>>
    /\ UNCHANGED <<mergeVars, loadVars, appVars, concVars, pureVars, sessionVars>>

\* 2. Find mixed spots file based on pattern from unmixed file
FindMixedSpotsFile ==
    /\ base_pattern # None
    /\ \E objects \in list_objects(bucket_keys) :
          key_search' =
              [fn |-> "find_mixed_spots_file",
               pattern |-> mixed_pattern(base_pattern.ret),
               objects |-> objects,
               ret |-> find_mixed_spots_file(objects,
                                             mixed_pattern(base_pattern.ret)),
               previous |-> previous("find_mixed_spots_file",
                                     mixed_pattern(base_pattern.ret))]
    /\ UNCHANGED <<bucket_keys, base_pattern>>
    /\ UNCHANGED <<mergeVars, loadVars, appVars, concVars, pureVars, sessionVars>>

NextLocate ==
    FindUnmixedSpotsFile \/ GetBasePatternFromUnmixed \/ FindMixedSpotsFile

SpecLocate == InitLocate /\ [][NextLocate]_vars

----------------------------------------------------------------------------
(* Claims about the file search, checked under SpecLocate *)

\* the characters of the keys, by ascending code point
CodeOrder ==
    <<"-", ".", "/", "0", "1", "2", "3", "4", "5", "6", "7", "8", "9", "D", "R",
      "_", "a", "d", "e", "i", "k", "l", "m", "n", "o", "p", "s", "t", "u", "x">>

ord(c) == CHOOSE i \in 1..Len(CodeOrder) : CodeOrder[i] = c

\* a sorts before b
RECURSIVE str_less(_, _)
str_less(a, b) ==
    IF b = <<>> THEN FALSE
    ELSE IF a = <<>> THEN TRUE
    ELSE IF Head(a) = Head(b) THEN str_less(Tail(a), Tail(b))
    ELSE ord(Head(a)) < ord(Head(b))

\* the listed keys whose filename matches the pattern of the search
ListedMatches ==
    {key_search.objects[i] : i \in
        {k \in 1..Len(key_search.objects) :
            fnmatch(path_name(key_search.objects[k]), key_search.pattern)}}

LexFirst(keys) == CHOOSE key \in keys : \A other \in keys \ {key} : str_less(key, other)

\* C27: when several listed objects match the pattern, the search returns
\* the lexicographically-first matching key, and the same key as the
\* search before it over the same stored objects, whatever the order of
\* the listing.
C27_LexFirstMatch ==
    (key_search # None /\ Cardinality(ListedMatches) >= 2) =>
        /\ key_search.ret = Key(LexFirst(ListedMatches))
        /\ (key_search.previous # FirstCall /\ key_search.previous # None) =>
              key_search.ret = key_search.previous

\* the part of a filename before its extension
stem(filename) ==
    IF \E i \in 1..Len(filename) : filename[i] = "."
    THEN SubSeq(filename, 1,
                (CHOOSE i \in 1..Len(filename) :
                    filename[i] = "." /\ \A j \in (i + 1)..Len(filename) : filename[j] # ".") - 1)
    ELSE filename

\* the round tokens of a key's filename, the extension set aside
RoundTokens(key) ==
    LET tokens == split(stem(path_name(key)), "_")
    IN  {tokens[i] : i \in {k \in 1..Len(tokens) : is_round_part(tokens[k])}}

\* C28: get_base_pattern_from_unmixed returns the round token of the
\* filename whenever it has one, also when that token is the last one
\* before the extension, and the default R3 only when it has none.
C28_RoundTokenFound ==
    base_pattern # None =>
        IF RoundTokens(base_pattern.unmixed_key) # {}
        THEN base_pattern.ret \in RoundTokens(base_pattern.unmixed_key)
        ELSE base_pattern.ret = DEFAULT_ROUND

----------------------------------------------------------------------------
(* Claims about the final channel, checked under SpecSankey *)

\* the channels of the final nodes of flow_summary
FinalNodes ==
    {flow_summary.nodes[i].channel : i \in
        {k \in 1..Len(flow_summary.nodes) :
            flow_summary.nodes[k].category = "final"}}

\* the final channel as stated: the sentinel for null and the empty string
StatedFinal(cell) == IF cell \in {Null, V("")} THEN "Removed" ELSE cell[1]

\* the final channel with the string 'none' counted as absent too
AbsentAwareFinal(cell) ==
    IF cell \in {Null, V(""), V("none")} THEN "Removed" ELSE cell[1]

\* C29 as stated: the final channel of a row is its unmixed_chan, with the
\* sentinel Removed for null and the empty string only; every other string
\* is its own final channel.
C29_Original ==
    flow_summary # None =>
        /\ FinalNodes =
              {StatedFinal(flow_df.rows[i]["unmixed_chan"]) : i \in 1..Height(flow_df)}
        /\ \A n \in 1..Len(flow_summary.links) :
              flow_summary.links[n].value =
                  Cardinality({ i \in 1..Height(flow_df) :
                      /\ origin_name(flow_df.rows[i]["chan"]) = flow_summary.links[n].source
                      /\ StatedFinal(flow_df.rows[i]["unmixed_chan"]) = flow_summary.links[n].target })

\* C29: the final channel of a row is its unmixed_chan, with the sentinel
\* Removed when unmixed_chan is null, the empty string or the string 'none';
\* every other string is its own final channel.  The final nodes are the
\* final channels of the rows and a link counts the rows of its origin and
\* final channel.
C29_FinalChannel ==
    flow_summary # None =>
        /\ FinalNodes =
              {AbsentAwareFinal(flow_df.rows[i]["unmixed_chan"]) : i \in 1..Height(flow_df)}
        /\ \A n \in 1..Len(flow_summary.links) :
              flow_summary.links[n].value =
                  Cardinality({ i \in 1..Height(flow_df) :
                      /\ origin_name(flow_df.rows[i]["chan"]) = flow_summary.links[n].source
                      /\ AbsentAwareFinal(flow_df.rows[i]["unmixed_chan"]) = flow_summary.links[n].target })

\* A summary of a table with rows whose unmixed_chan is 'none' and rows that
\* keep a channel: the former are linked to Removed, the latter to 561.
C29_Witness ==
    /\ flow_summary # None
    /\ \E i \in 1..Height(flow_df) : flow_df.rows[i]["unmixed_chan"] = V("none")
    /\ FinalNodes = {"561", "Removed"}
    /\ \E n \in 1..Len(flow_summary.links) :
          /\ flow_summary.links[n].target = "Removed"
          /\ flow_summary.links[n].value = 5
    /\ \E n \in 1..Len(flow_summary.links) : flow_summary.links[n].target = "561"

----------------------------------------------------------------------------
(* Claims about the order of the downloads and the join, checked under      *)
(* SpecLoad                                                                  *)

\* the positions of an operation in the operations of the call
PositionsOf(op) == {i \in 1..Len(call.ops) : call.ops[i] = op}

\* C30: on the cache-miss path the join starts only after the download of
\* the unmixed file and the download of the mixed file were both made and
\* both succeeded, the unmixed one first; there is no join in a call in
\* which a download was not made or failed.
C30_JoinAfterBothDownloads ==
    CacheMiss =>
        /\ \A k \in PositionsOf("merge") :
              /\ \E i \in PositionsOf("download_unmixed") :
                    \E j \in PositionsOf("download_mixed") : i < j /\ j < k
              /\ call.env.unmixed_downloaded
              /\ call.env.mixed_downloaded
        /\ (\/ PositionsOf("download_unmixed") = {}
            \/ PositionsOf("download_mixed") = {}
            \/ ~call.env.unmixed_downloaded
            \/ ~call.env.mixed_downloaded) => PositionsOf("merge") = {}
        /\ Cardinality(PositionsOf("merge")) <= 1

\* A cache miss in which both files were downloaded and then joined.
C30_Witness ==
    /\ CacheMiss
    /\ PositionsOf("merge") # {}
    /\ PositionsOf("download_unmixed") # {}
    /\ PositionsOf("download_mixed") # {}
    /\ IsTable(call.ret)

----------------------------------------------------------------------------
(* Claims about retries, checked under SpecLoad *)

\* the remote operation that fails in the environment of the call, if any
FailedRemoteOp ==
    IF ~call.env.unmixed_found THEN {"list_unmixed"}
    ELSE IF ~call.env.mixed_found THEN {"list_mixed"}
    ELSE IF ~call.env.unmixed_downloaded THEN {"download_unmixed"}
    ELSE IF ~call.env.mixed_downloaded THEN {"download_mixed"}
    ELSE {}

\* C31: a call never retries a failed remote-store operation: each listing
\* and each download is attempted at most once, so a call makes at most two
\* listings and two downloads; when one of them fails it is the last
\* operation of the call, and the call ends with the failure value.
C31_NoRetry ==
    call # NoCall =>
        /\ \A op \in RemoteOps : Cardinality(PositionsOf(op)) <= 1
        /\ Cardinality({i \in 1..Len(call.ops) : call.ops[i] \in RemoteOps}) <= 4
        /\ CacheMiss =>
              \A op \in FailedRemoteOp :
                  /\ call.ops[Len(call.ops)] = op
                  /\ call.ret = None

\* A cache miss whose mixed download failed: attempted once, the last
\* operation of the call.
C31_Witness ==
    /\ CacheMiss
    /\ FailedRemoteOp = {"download_mixed"}
    /\ Cardinality(PositionsOf("download_mixed")) = 1
    /\ call.ops[Len(call.ops)] = "download_mixed"
    /\ call.ret = None

----------------------------------------------------------------------------
(* Claims about the columns of the mixed table, checked under SpecLoad *)

\* the mixed table of the content the table returned by the call was merged
\* from: the present content when the call merged, some content of the
\* dataset when it read the artifact
MergedFrom ==
    IF "merge" \in Range(call.ops)
    THEN {RemoteMixed(remote[call.dataset_name])}
    ELSE {RemoteMixed(content) : content \in ContentsOf(call.dataset_name)}

\* a Float64 value rounded to the 24 bits of single precision
SinglePrecision(x) ==
    LET up == x.lo > Float32Half \/ (x.lo = Float32Half /\ x.hi % 2 = 1)
    IN  [hi |-> IF up THEN x.hi + 1 ELSE x.hi, lo |-> 0, huge |-> FALSE]

\* the value of a cell of the mixed table as the returned table holds it
Carried(mixed, i, c) ==
    IF /\ c \in Float64Cols
       /\ mixed.rows[i][c] # Null
       /\ \A k \in 1..Height(mixed) : ~mixed.rows[k][c][1].huge
    THEN V(SinglePrecision(mixed.rows[i][c][1]))
    ELSE mixed.rows[i][c]

----------------------------------------------------------------------------
(* Claims about the dataset of the memoized table, checked under Spec *)

\* the tables load_and_merge_spots_from_s3 can return for a dataset
TablesOf(d) ==
    UNION { { ExpectedView(MergedOf[content], flag) :
                flag \in (IF "valid_spot" \in MergedOf[content].cols
                          THEN BOOLEAN ELSE {FALSE}) } :
            content \in {c \in ContentsOf(d) : MergedOf[c] # None} }

\* C33: in every reachable state of the app a memoized table in df_cache was
\* loaded for the dataset that is active: its target key is that of
\* DATA_PREFIX and it is a table of that dataset; the rows a data request
\* serves are rows of it.
C33_MemoOfActiveDataset ==
    /\ df_cache.data # None =>
          /\ df_cache.target_key = V(DATA_PREFIX)
          /\ df_cache.data \in TablesOf(DATA_PREFIX)
    /\ (DataRequest /\ response.status = 200) => ServesMemo

\* The second dataset is active and has a memoized table, after the first one
\* was loaded.
C33_Witness ==
    /\ DATA_PREFIX = "dsB"
    /\ df_cache.data # None
    /\ df_cache.data \notin TablesOf("dsA")
    /\ parquet["dsA"].kind = "parquet"

----------------------------------------------------------------------------
(* Claims about the valid_spots_only flag of a data request, checked under  *)
(* Spec                                                                      *)

\* the keys of the rows a data request was served
ServedKeys ==
    {<<response.spots_data.rows[i]["chan"], response.spots_data.rows[i]["spot_id"]>> :
        i \in 1..Height(response.spots_data)}

\* the keys of the rows of a table
TableKeys(df) ==
    {<<df.rows[i]["chan"], df.rows[i]["spot_id"]>> : i \in 1..Height(df)}

\* C34: the table a data request serves respects the request's
\* valid_spots_only flag also on a memo hit: with the flag false the request
\* is served every row of the merged table of the dataset, with the flag true
\* only its valid rows.
C34_FlagRespectedOnMemoHit ==
    (/\ DataRequest
     /\ response.status = 200
     /\ MemoHit
     /\ response.sample_size = SAMPLE_SIZE
     /\ parquet[DATA_PREFIX].kind = "parquet"
     /\ parquet[DATA_PREFIX].table = MergedOf[remote[DATA_PREFIX]]
     /\ df_cache.data \in TablesOf(DATA_PREFIX)
     /\ \E flag \in BOOLEAN :
           df_cache.data = ExpectedView(parquet[DATA_PREFIX].table, flag)) =>
        ServedKeys =
            TableKeys(ExpectedView(parquet[DATA_PREFIX].table,
                                   response.valid_spots_only))

----------------------------------------------------------------------------
(* Claims about a failed reload, checked under Spec *)

\* C35: a data request whose reload fails, because the manifest is not found
\* or cannot be loaded or because the merger returns a failure or raises,
\* leaves the memo entry exactly as it was before the request: table,
\* manifest, channel list and flow summary are unchanged.
C35_FailedReloadKeepsEntry ==
    [][(/\ response'.endpoint = "real_spots_data"
        /\ response'.error \in ManifestErrors \cup MergerErrors)
            => df_cache' = df_cache]_vars

\* A forced refresh failed in the merger while the entry held a table, a
\* manifest and a flow summary, and the entry still holds them.
C35_Witness ==
    /\ DataRequest
    /\ response.force_refresh
    /\ response.error \in MergerErrors
    /\ response.memo_before # None
    /\ df_cache.data = response.memo_before
    /\ df_cache.processing_manifest # None
    /\ df_cache.sankey_data # None

----------------------------------------------------------------------------
(* SpecSession: SessionManager, its sessions table and its in-memory map *)

\* The callers' inputs.
Usernames == {"alice", "bob"}

SessionPrefixes == {"dsA"}

Threads == {"t1", "t2"}

\* uuid4 gives a new session id at each call: the ids are numbered in the
\* order in which they are given, and MaxUuids bounds how many there are.
MaxUuids == 2

SessionIds == 1..MaxUuids

\* The clock stops at MaxHours; cleanup_old_sessions is called with one of
\* MaxAgeHours.
MaxHours == 1

MaxAgeHours == {0, 1}

\* a thread that is in no call of the SessionManager
NotCalling == [op |-> "none"]

\* the df_cache of a new in-memory entry: six fields, all None
CacheFields ==
    {"data", "last_loaded", "target_key", "processing_manifest",
     "spot_channels_from_manifest", "sankey_data"}

NewDfCache == [f \in CacheFields |-> Null]

NewSessionData(data_prefix) ==
    [data_prefix |-> data_prefix, df_cache |-> NewDfCache]

\* the cache_data handed to update_session_cache
CacheData == {[f \in {"data", "last_loaded", "target_key"} |-> V("loaded")]}

\* dict.update, and the ** of a dict display: the keys of other win
dict_update(d, other) ==
    [k \in DOMAIN d \cup DOMAIN other |->
        IF k \in DOMAIN other THEN other[k] ELSE d[k]]

\* self.session_data[session_id] = entry
dict_set(d, key, entry) ==
    [k \in DOMAIN d \cup {key} |-> IF k = key THEN entry ELSE d[k]]

\* del self.session_data[session_id] for each of the keys that are present
dict_del(d, keys) == [k \in DOMAIN d \ keys |-> d[k]]

\* A row of the sessions table; created_at is written once and never read
\* by the SessionManager, so the rows do not carry it.
Row(username, data_prefix, last_accessed) ==
    [username |-> username, data_prefix |-> data_prefix,
     last_accessed |-> last_accessed]

\* a lookup that finds no row whatever the table holds
select_nothing(db, username) == Null

\* SELECT session_id, data_prefix FROM sessions WHERE username = ?
select_by_username(db, username) ==
    IF \E s \in DOMAIN db : db[s].username = username
    THEN V(CHOOSE s \in DOMAIN db : db[s].username = username)
    ELSE Null

\* session_id is the PRIMARY KEY and the table has UNIQUE(username): an
\* INSERT that breaks either raises sqlite3.IntegrityError
can_insert(db, session_id, username) ==
    /\ session_id \notin DOMAIN db
    /\ \A s \in DOMAIN db : db[s].username # username

\* INSERT INTO sessions (session_id, username, data_prefix) VALUES (?, ?, ?)
insert(db, session_id, row) == dict_set(db, session_id, row)

\* UPDATE sessions SET last_accessed = CURRENT_TIMESTAMP WHERE session_id = ?
update_last_accessed(db, session_id, t) ==
    [s \in DOMAIN db |->
        IF s = session_id THEN [db[s] EXCEPT !.last_accessed = t] ELSE db[s]]

\* the same UPDATE without its WHERE clause
update_data_prefix_everywhere(db, session_id, data_prefix, t) ==
    [s \in DOMAIN db |->
        [db[s] EXCEPT !.data_prefix = data_prefix, !.last_accessed = t]]

\* UPDATE sessions SET data_prefix = ?, last_accessed = CURRENT_TIMESTAMP
\* WHERE session_id = ?
update_data_prefix(db, session_id, data_prefix, t) ==
    [s \in DOMAIN db |->
        IF s = session_id
        THEN [db[s] EXCEPT !.data_prefix = data_prefix, !.last_accessed = t]
        ELSE db[s]]

\* SELECT session_id FROM sessions WHERE last_accessed < ?
old_sessions(db, cutoff_time) ==
    {s \in DOMAIN db : db[s].last_accessed < cutoff_time}

\* a session id, and a list of rows, as a call returns them
Id(session_id) == [session_id |-> session_id]

Listing(rows) == [rows |-> rows]

\* what a call gave back: ret is the value, or Raised
Returned(op, ret) == [op |-> op, ret |-> ret]

InitSessionManager ==
    /\ sessions = <<>>
    /\ session_data = <<>>
    /\ lock = Null
    /\ threads = [t \in Threads |-> NotCalling]
    /\ returned = None
    /\ now = 0
    /\ uuids = 0

InitSession ==
    /\ InitSessionManager
    /\ InitIdleDtypes
    /\ InitIdleManifest
    /\ InitIdleSankey
    /\ InitIdleLocate
    /\ spots_mixed = Table({}, <<>>)
    /\ spots_unmixed = Table({}, <<>>)
    /\ merged = None
    /\ InitIdleLoad
    /\ InitIdleApp

otherVars == <<mergeVars, loadVars, appVars, concVars, pureVars, locateVars>>

\* create_session, from taking the lock to the commit
CreateSessionDb(t, username, data_prefix) ==
    /\ lock = Null
    /\ threads[t] = NotCalling
    /\ LET existing == select_by_username(sessions, username) IN
        IF existing # Null
        THEN \* Update existing session
             /\ sessions' = update_last_accessed(sessions, existing[1], now)
             /\ threads' = [threads EXCEPT ![t] =
                    [op |-> "create_session",
                     session_id |-> existing[1],
                     data_prefix |->
                         IF data_prefix = Null
                         THEN sessions[existing[1]].data_prefix
                         ELSE data_prefix]]
             /\ lock' = V(t)
             /\ UNCHANGED <<returned, uuids>>
        ELSE \* Create new session
             /\ uuids < MaxUuids
             /\ uuids' = uuids + 1
             /\ IF can_insert(sessions, uuids + 1, username)
                THEN /\ sessions' = insert(sessions, uuids + 1,
                                           Row(username, data_prefix, now))
                     /\ threads' = [threads EXCEPT ![t] =
                            [op |-> "create_session",
                             session_id |-> uuids + 1,
                             data_prefix |-> data_prefix]]
                     /\ lock' = V(t)
                     /\ UNCHANGED returned
                ELSE /\ returned' =
                            Returned("create_session", Raised)
                     /\ UNCHANGED <<sessions, threads, lock>>
    /\ UNCHANGED <<session_data, now, otherVars>>

\* create_session, from the commit to the return
CreateSessionMem(t) ==
    /\ lock = V(t)
    /\ threads[t].op = "create_session"
    /\ LET session_id == threads[t].session_id IN
        /\ session_data' =
                IF session_id \notin DOMAIN session_data
                THEN dict_set(session_data, session_id,
                              NewSessionData(threads[t].data_prefix))
                ELSE session_data
        /\ returned' =
                Returned("create_session", Id(session_id))
    /\ threads' = [threads EXCEPT ![t] = NotCalling]
    /\ lock' = Null
    /\ UNCHANGED <<sessions, now, uuids, otherVars>>

\* get_session, from taking the lock to the commit, or to the return of None
GetSessionDb(t, session_id) ==
    /\ lock = Null
    /\ threads[t] = NotCalling
    /\ IF session_id \notin DOMAIN sessions
       THEN /\ returned' = Returned("get_session", None)
            /\ UNCHANGED <<sessions, threads, lock>>
       ELSE /\ sessions' = update_last_accessed(sessions, session_id, now)
            /\ threads' = [threads EXCEPT ![t] =
                    [op |-> "get_session",
                     session_id |-> session_id,
                     username |-> sessions[session_id].username,
                     data_prefix |-> sessions[session_id].data_prefix]]
            /\ lock' = V(t)
            /\ UNCHANGED returned
    /\ UNCHANGED <<session_data, now, uuids, otherVars>>

\* get_session, from the commit to the return
GetSessionMem(t) ==
    /\ lock = V(t)
    /\ threads[t].op = "get_session"
    /\ LET session_id == threads[t].session_id IN
        /\ session_data' =
                IF session_id \notin DOMAIN session_data
                THEN dict_set(session_data, session_id,
                              NewSessionData(threads[t].data_prefix))
                ELSE session_data
        /\ returned' =
                Returned("get_session",
                         dict_update([session_id |-> session_id,
                                      username |-> threads[t].username,
                                      data_prefix |-> threads[t].data_prefix],
                                     session_data'[session_id]))
    /\ threads' = [threads EXCEPT ![t] = NotCalling]
    /\ lock' = Null
    /\ UNCHANGED <<sessions, now, uuids, otherVars>>

\* update_session_data_prefix, from taking the lock to the commit
UpdateSessionDataPrefixDb(t, session_id, data_prefix) ==
    /\ lock = Null
    /\ threads[t] = NotCalling
    /\ sessions' = update_data_prefix(sessions, session_id, data_prefix, now)
    /\ threads' = [threads EXCEPT ![t] =
            [op |-> "update_session_data_prefix",
             session_id |-> session_id,
             data_prefix |-> data_prefix]]
    /\ lock' = V(t)
    /\ UNCHANGED <<session_data, returned, now, uuids, otherVars>>

\* update_session_data_prefix, from the commit to the return
UpdateSessionDataPrefixMem(t) ==
    /\ lock = V(t)
    /\ threads[t].op = "update_session_data_prefix"
    /\ LET session_id == threads[t].session_id IN
        /\ session_data' =
                IF session_id \in DOMAIN session_data
                THEN dict_set(session_data, session_id,
                              NewSessionData(threads[t].data_prefix))
                ELSE session_data
        /\ returned' = Returned("update_session_data_prefix", None)
    /\ threads' = [threads EXCEPT ![t] = NotCalling]
    /\ lock' = Null
    /\ UNCHANGED <<sessions, now, uuids, otherVars>>

\* get_session_cache: memory only, the whole call under the lock
GetSessionCache(t, session_id) ==
    /\ lock = Null
    /\ threads[t] = NotCalling
    /\ returned' =
            Returned("get_session_cache",
                     IF session_id \notin DOMAIN session_data
                     THEN NewDfCache
                     ELSE session_data[session_id].df_cache)
    /\ UNCHANGED <<sessions, session_data, lock, threads, now, uuids, otherVars>>

\* update_session_cache: memory only, the whole call under the lock
UpdateSessionCache(t, session_id, cache_data) ==
    /\ lock = Null
    /\ threads[t] = NotCalling
    /\ LET present ==
            IF session_id \notin DOMAIN session_data
            THEN dict_set(session_data, session_id,
                          [data_prefix |-> Null, df_cache |-> <<>>])
            ELSE session_data
       IN session_data' =
            dict_set(present, session_id,
                     [present[session_id] EXCEPT
                        !.df_cache = dict_update(@, cache_data)])
    /\ returned' = Returned("update_session_cache", None)
    /\ UNCHANGED <<sessions, lock, threads, now, uuids, otherVars>>

\* cleanup_old_sessions: the whole call under the lock, the memory entries
\* removed inside the connection block
CleanupOldSessions(t, max_age_hours) ==
    /\ lock = Null
    /\ threads[t] = NotCalling
    /\ LET cutoff_time == now - max_age_hours IN
        /\ sessions' = dict_del(sessions, old_sessions(sessions, cutoff_time))
        /\ session_data' =
                dict_del(session_data, old_sessions(sessions, cutoff_time))
    /\ returned' = Returned("cleanup_old_sessions", None)
    /\ UNCHANGED <<lock, threads, now, uuids, otherVars>>

\* ORDER BY last_accessed DESC: rows of equal last_accessed in any order
listings(db) ==
    {q \in [1..Cardinality(DOMAIN db) -> DOMAIN db] :
        /\ \A i, j \in DOMAIN q : i # j => q[i] # q[j]
        /\ \A i, j \in DOMAIN q :
                i < j => db[q[i]].last_accessed >= db[q[j]].last_accessed}

\* list_active_sessions: reads the table without taking the lock
ListActiveSessions(t) ==
    /\ threads[t] = NotCalling
    /\ \E q \in listings(sessions) :
        returned' =
            Returned("list_active_sessions",
                     Listing([i \in DOMAIN q |->
                        [session_id |-> q[i],
                         username |-> sessions[q[i]].username,
                         last_accessed |-> sessions[q[i]].last_accessed,
                         data_prefix |-> sessions[q[i]].data_prefix]]))
    /\ UNCHANGED <<sessions, session_data, lock, threads, now, uuids, otherVars>>

\* The process stops and starts again: a new SessionManager over the same
\* database file, its map empty, its lock free, no thread in a call.
Restart ==
    /\ session_data' = <<>>
    /\ lock' = Null
    /\ threads' = [t \in Threads |-> NotCalling]
    /\ returned' = None
    /\ UNCHANGED <<sessions, now, uuids, otherVars>>

\* An hour passes.
Tick ==
    /\ now < MaxHours
    /\ now' = now + 1
    /\ UNCHANGED <<sessions, session_data, lock, threads, returned, uuids,
                   otherVars>>

\* The calls of create_session, get_session and update_session_data_prefix.
NextSessionCore ==
    \/ \E t \in Threads, username \in Usernames :
        \E data_prefix \in {Null} \cup {V(p) : p \in SessionPrefixes} :
            CreateSessionDb(t, username, data_prefix)
    \/ \E t \in Threads : CreateSessionMem(t)
    \/ \E t \in Threads, session_id \in SessionIds : GetSessionDb(t, session_id)
    \/ \E t \in Threads : GetSessionMem(t)
    \/ \E t \in Threads, session_id \in SessionIds :
        \E data_prefix \in SessionPrefixes :
            UpdateSessionDataPrefixDb(t, session_id, V(data_prefix))
    \/ \E t \in Threads : UpdateSessionDataPrefixMem(t)
    \/ Restart

NextSession ==
    \/ NextSessionCore
    \/ \E t \in Threads, session_id \in SessionIds :
        GetSessionCache(t, session_id)
    \/ \E t \in Threads, session_id \in SessionIds :
        \E cache_data \in CacheData :
            UpdateSessionCache(t, session_id, cache_data)
    \/ \E t \in Threads, max_age_hours \in MaxAgeHours :
        CleanupOldSessions(t, max_age_hours)
    \/ \E t \in Threads : ListActiveSessions(t)
    \/ Tick

SpecSession == InitSession /\ [][NextSession]_vars

\* The three calls and the restart alone.
SpecSessionCore == InitSession /\ [][NextSessionCore]_vars

----------------------------------------------------------------------------
(* C36: one session per username *)

OneSessionPerUsername ==
    \A s, o \in DOMAIN sessions :
        sessions[s].username = sessions[o].username => s = o

\* the session of a username, as a set: empty when there is none
SessionsOf(username) ==
    {s \in DOMAIN sessions : sessions[s].username = username}

\* a call of create_session for a username that has a session adds no row,
\* goes on with the id of that session, and returns the id it went on with
CreateAgainSameId ==
    /\ lock = Null =>
        \A t \in Threads, username \in Usernames :
            \A data_prefix \in {Null} \cup {V(p) : p \in SessionPrefixes} :
                (/\ SessionsOf(username) # {}
                 /\ CreateSessionDb(t, username, data_prefix))
                    => /\ DOMAIN sessions' = DOMAIN sessions
                       /\ threads'[t].op = "create_session"
                       /\ threads'[t].session_id \in SessionsOf(username)
    /\ lock # Null =>
        \A t \in Threads :
            CreateSessionMem(t)
                => /\ returned'.op = "create_session"
                   /\ returned'.ret = Id(threads[t].session_id)

\* C36: after any sequence of SessionManager operations the sessions table
\* holds at most one session per username, and create_session called for a
\* username that has a session returns the id of that session and creates
\* no new one.
C36_OneSessionPerUsername ==
    /\ []OneSessionPerUsername
    /\ [][CreateAgainSameId]_vars

\* create_session has returned session 1, no other id was ever given, both
\* the table and the map hold session 1, and a thread is again in
\* create_session, past its commit, with the id 1.
C36_Witness ==
    /\ returned # None
    /\ returned.op = "create_session"
    /\ returned.ret = Id(1)
    /\ uuids = 1
    /\ DOMAIN sessions = {1}
    /\ 1 \in DOMAIN session_data
    /\ \E t \in Threads :
        /\ lock = V(t)
        /\ threads[t].op = "create_session"
        /\ threads[t].session_id = 1

----------------------------------------------------------------------------
(* C37: the two updates touch one session only *)

\* every session but session_id keeps its row's data prefix and its
\* in-memory entry, and none appears or disappears
OthersUnchanged(session_id) ==
    \A o \in SessionIds \ {session_id} :
        /\ (o \in DOMAIN sessions') = (o \in DOMAIN sessions)
        /\ o \in DOMAIN sessions
            => sessions'[o].data_prefix = sessions[o].data_prefix
        /\ (o \in DOMAIN session_data') = (o \in DOMAIN session_data)
        /\ o \in DOMAIN session_data => session_data'[o] = session_data[o]

UpdatesTouchOneSession ==
    /\ lock = Null =>
        \A t \in Threads, session_id \in SessionIds :
            (\/ \E data_prefix \in SessionPrefixes :
                    UpdateSessionDataPrefixDb(t, session_id, V(data_prefix))
             \/ \E cache_data \in CacheData :
                    UpdateSessionCache(t, session_id, cache_data))
                => OthersUnchanged(session_id)
    /\ lock # Null =>
        \A t \in Threads :
            UpdateSessionDataPrefixMem(t)
                => OthersUnchanged(threads[t].session_id)

\* C37: every step of update_session_data_prefix and of update_session_cache
\* on one session, whatever the other thread did before and does after,
\* leaves the data prefix (in the table and in memory) and every cache field
\* of every other session as they were.
C37_UpdatesTouchOneSession == [][UpdatesTouchOneSession]_vars

\* update_session_data_prefix has returned and session 1 holds its prefix
\* with an emptied cache, in the table and in memory, while session 2 still
\* has no prefix and the cache fields update_session_cache gave it.
C37_Witness ==
    /\ returned # None
    /\ returned.op = "update_session_data_prefix"
    /\ DOMAIN sessions = {1, 2}
    /\ DOMAIN session_data = {1, 2}
    /\ sessions[1].data_prefix = V("dsA")
    /\ session_data[1] = NewSessionData(V("dsA"))
    /\ sessions[2].data_prefix = Null
    /\ session_data[2].data_prefix = Null
    /\ session_data[2].df_cache =
            dict_update(NewDfCache,
                        [f \in {"data", "last_loaded", "target_key"} |->
                            V("loaded")])

----------------------------------------------------------------------------
(* C38: the data prefix in memory and the data prefix in the table *)

\* no call is under way, and every session held in memory has a row whose
\* data prefix is the one held in memory
MemoryMatchesTable ==
    lock = Null =>
        \A s \in DOMAIN session_data :
            /\ s \in DOMAIN sessions
            /\ session_data[s].data_prefix = sessions[s].data_prefix

\* the last call that returned was get_session, it found the session, the
\* table was not written since, and it reported the data prefix of the row
GetSessionReportsTable ==
    (/\ lock = Null
     /\ returned # None
     /\ returned.op = "get_session"
     /\ returned.ret # None)
        => returned.ret.data_prefix =
                sessions[returned.ret.session_id].data_prefix

\* C38: after any sequence of create_session, get_session and
\* update_session_data_prefix calls and restarts, the data prefix held in
\* memory for a session is the one its row holds, and get_session reports
\* the one its row holds.
C38_MemoryMatchesTable == MemoryMatchesTable /\ GetSessionReportsTable

============================================================================
